---- MODULE Spec2Model ----
(***************************************************************************)
(* A model of the ImageOptimizer backend: the storage-provider registry    *)
(* (storage/models.py, storage/serializers.py, storage/views.py), the      *)
(* backend factory and backends (storage/backends.py) and the image        *)
(* endpoints (images/views.py, images/serializers.py).                     *)
(*                                                                         *)
(* Text fields are tuples: '' is <<>>.  A Python dict is a function from   *)
(* key names to values; the empty dict is the empty function <<>>.         *)
(* A provider's name and the timestamps take part in no modelled decision  *)
(* and are left out of the records.                                        *)
(***************************************************************************)
EXTENDS Integers, Sequences, FiniteSets, TLC

VARIABLES
    storage_providers,      \* table storage_storageprovider: pk -> row
    images,                 \* table images_image: pk -> row
    next_provider_id,       \* auto-increment of storage_storageprovider
    next_image_id,          \* auto-increment of images_image
    remote,                 \* objects held by the remote stores: <<provider pk, path>>
    log,                    \* records written by logger.error
    response,               \* the response to the last request
    STORAGE_ENCRYPTION_KEY, \* settings.STORAGE_ENCRYPTION_KEY
    requests,               \* in-flight set_default requests: process -> frame
    call,                   \* the last direct call of a function: inputs and result
    storage_backend         \* a backend instance, its connections and its store

vars == <<storage_providers, images, next_provider_id, next_image_id, remote,
          log, response, STORAGE_ENCRYPTION_KEY, requests, call, storage_backend>>

(***************************************************************************)
(* Bounds of the model.                                                    *)
(***************************************************************************)
MaxProviders == 2
MaxImages == 1
MaxTransports == 3
MaxStatsImages == 2
MaxBytes == 2

Users == {"u1", "u2"}
Procs == {"r1", "r2"}

ProviderIds == 1..MaxProviders
ImageIds == 1..MaxImages

Restrict(f, S) == [k \in S |-> f[k]]
Get(d, k, default) == IF k \in DOMAIN d THEN d[k] ELSE default

(***************************************************************************)
(* StorageProvider.PROVIDER_CHOICES and the per-type key sets.             *)
(***************************************************************************)
PROVIDER_CHOICES == {"s3", "azure", "gcs", "sftp"}

(***************************************************************************)
(* Fernet and json, by what they do: a token opens only under the key that *)
(* sealed it; '' and anything that is no token is rejected.                *)
(***************************************************************************)
\* json.dumps writes the members of the dict as "key": value pairs;
\* json.loads builds the dict back from the pairs it reads
json_dumps(d) == <<"json", {<<k, d[k]>> : k \in DOMAIN d}>>
json_loads(s) ==
    [k \in {member[1] : member \in s[2]} |->
        (CHOOSE member \in s[2] : member[1] = k)[2]]

Fernet_encrypt(key, plaintext) == <<"gAAAAA", key, plaintext>>

Fernet_decrypt(key, token) ==
    IF Len(token) = 3 /\ token[1] = "gAAAAA" /\ token[2] = key
    THEN [ok |-> TRUE, value |-> token[3]]
    ELSE [ok |-> FALSE, error |-> "InvalidToken"]

\* set_credentials that stores the serialized map unsealed
set_credentials_plain(key, credentials_dict) ==
    IF key = ""
    THEN [ok |-> FALSE, error |-> "ValueError: STORAGE_ENCRYPTION_KEY not configured"]
    ELSE [ok |-> TRUE, value |-> json_dumps(credentials_dict)]

\* set_credentials that stores the serialized map as it is when no key is
\* configured
set_credentials_unkeyed(key, credentials_dict) ==
    IF key = ""
    THEN [ok |-> TRUE, value |-> json_dumps(credentials_dict)]
    ELSE [ok |-> TRUE, value |-> Fernet_encrypt(key, json_dumps(credentials_dict))]

\* StorageProvider.set_credentials: the new value of encrypted_credentials,
\* or the ValueError raised when the key is not configured.
set_credentials(key, credentials_dict) ==
    IF key = ""
    THEN [ok |-> FALSE, error |-> "ValueError: STORAGE_ENCRYPTION_KEY not configured"]
    ELSE [ok |-> TRUE, value |-> Fernet_encrypt(key, json_dumps(credentials_dict))]

\* get_credentials that decrypts and returns a map without the members
get_credentials_blank(key, encrypted_credentials) ==
    IF key = ""
    THEN [ok |-> FALSE, error |-> "ValueError: STORAGE_ENCRYPTION_KEY not configured"]
    ELSE LET decrypted == Fernet_decrypt(key, encrypted_credentials)
         IN IF decrypted.ok THEN [ok |-> TRUE, value |-> <<>>] ELSE decrypted

\* StorageProvider.get_credentials
get_credentials(key, encrypted_credentials) ==
    IF key = ""
    THEN [ok |-> FALSE, error |-> "ValueError: STORAGE_ENCRYPTION_KEY not configured"]
    ELSE LET decrypted == Fernet_decrypt(key, encrypted_credentials)
         IN IF decrypted.ok
            THEN [ok |-> TRUE, value |-> json_loads(decrypted.value)]
            ELSE decrypted

(***************************************************************************)
(* StorageProviderSerializer.validate                                      *)
(***************************************************************************)
required_creds(provider_type) ==
    CASE provider_type = "s3" -> {"access_key_id", "secret_access_key"}
      [] provider_type = "azure" -> {"account_name", "account_key"}
      [] provider_type = "gcs" -> {"credentials_json"}
      [] provider_type = "sftp" -> {"host", "username"}

required_config(provider_type) ==
    CASE provider_type = "s3" -> {"bucket", "region"}
      [] provider_type = "azure" -> {"container"}
      [] provider_type = "gcs" -> {"bucket"}
      [] provider_type = "sftp" -> {"remote_path"}

NoInstance == <<>>

validate(data, instance) ==
    LET provider_type ==
            Get(data, "provider_type",
                IF instance # NoInstance THEN instance.provider_type ELSE "None")
        credentials == Get(data, "credentials", <<>>)
    IN IF provider_type \notin {"s3", "azure", "gcs", "sftp"}
       THEN [ok |-> TRUE]
       ELSE LET missing_creds == required_creds(provider_type) \ DOMAIN credentials
                config == Get(data, "config",
                              IF instance # NoInstance THEN instance.config ELSE <<>>)
                missing_config == required_config(provider_type) \ DOMAIN config
            IN IF credentials # <<>> /\ missing_creds # {}
               THEN [ok |-> FALSE, field |-> "credentials", missing |-> missing_creds]
               ELSE IF missing_config # {}
               THEN [ok |-> FALSE, field |-> "config", missing |-> missing_config]
               ELSE [ok |-> TRUE]

\* The field-level validation the ModelSerializer runs before validate():
\* provider_type is a ChoiceField over PROVIDER_CHOICES, required on create.
fields_valid(data, instance) ==
    /\ "provider_type" \in DOMAIN data => data.provider_type \in PROVIDER_CHOICES
    /\ instance = NoInstance => "provider_type" \in DOMAIN data

(***************************************************************************)
(* StorageProvider.save: clear the other defaults of the user, then write  *)
(* the row.                                                                *)
(***************************************************************************)
\* save() that forgets the update of the other rows
clear_other_defaults_noop(table, pk, row) == table

clear_other_defaults(table, pk, row) ==
    IF row.is_default
    THEN [q \in DOMAIN table |->
            IF table[q].user = row.user /\ table[q].is_default /\ q # pk
            THEN [table[q] EXCEPT !.is_default = FALSE]
            ELSE table[q]]
    ELSE table

write_row(table, pk, row) ==
    [q \in DOMAIN table \cup {pk} |-> IF q = pk THEN row ELSE table[q]]

\* save() that clears the other defaults only when the row is new
save_clear_on_insert(table, pk, row) ==
    IF pk \in DOMAIN table
    THEN write_row(table, pk, row)
    ELSE write_row(clear_other_defaults(table, pk, row), pk, row)

save(table, pk, row) == write_row(clear_other_defaults(table, pk, row), pk, row)

(***************************************************************************)
(* What the serializers put in a response.                                 *)
(***************************************************************************)
provider_type_display(provider_type) ==
    CASE provider_type = "s3" -> "AWS S3"
      [] provider_type = "azure" -> "Azure Blob Storage"
      [] provider_type = "gcs" -> "Google Cloud Storage"
      [] provider_type = "sftp" -> "SFTP"
      [] OTHER -> provider_type

\* A serializer whose Meta.fields lists the sealed column
StorageProviderSerializer_sealed(pk, row) ==
    [id |-> pk,
     provider_type |-> row.provider_type,
     is_default |-> row.is_default,
     is_active |-> row.is_active,
     config |-> row.config,
     encrypted_credentials |-> row.encrypted_credentials]

\* StorageProviderSerializer.Meta.fields without the write-only field
StorageProviderSerializer(pk, row) ==
    [id |-> pk,
     provider_type |-> row.provider_type,
     provider_type_display |-> provider_type_display(row.provider_type),
     is_default |-> row.is_default,
     is_active |-> row.is_active,
     config |-> row.config]

\* StorageProviderListSerializer.Meta.fields
StorageProviderListSerializer(pk, row) ==
    [id |-> pk,
     provider_type |-> row.provider_type,
     provider_type_display |-> provider_type_display(row.provider_type),
     is_default |-> row.is_default,
     is_active |-> row.is_active]

\* A response: who asked, which endpoint, the HTTP status, the provider and
\* image representations in the body, the error text's class, and the
\* condition of the network the request met when it reached a backend (not
\* part of the wire data).
Response(u, op, target, status, provs, imgs, error, net) ==
    [user |-> u, op |-> op, target |-> target, status |-> status,
     providers |-> provs, images |-> imgs, error |-> error, net |-> net]

NoResponse == Response("nobody", "none", 0, 0, {}, {}, "", "unused")

\* The providers of u with is_default = TRUE
defaults_of(u) ==
    {pk \in DOMAIN storage_providers :
        storage_providers[pk].user = u /\ storage_providers[pk].is_default}

\* StorageProviderViewSet.get_queryset
provider_queryset(u) == {pk \in DOMAIN storage_providers : storage_providers[pk].user = u}

(***************************************************************************)
(* The provider endpoints, one request at a time.                          *)
(***************************************************************************)
\* POST /providers/: StorageProviderSerializer.create
CreateProvider(u, data) ==
    /\ next_provider_id <= MaxProviders
    /\ UNCHANGED <<images, next_image_id, remote, log, STORAGE_ENCRYPTION_KEY, requests,
                   call, storage_backend>>
    /\ LET v == validate(data, NoInstance)
           pk == next_provider_id
           credentials == Get(data, "credentials", <<>>)
           row == [user |-> u,
                   provider_type |-> data.provider_type,
                   is_default |-> Get(data, "is_default", FALSE),
                   is_active |-> Get(data, "is_active", TRUE),
                   config |-> Get(data, "config", <<>>),
                   encrypted_credentials |-> <<>>]
           created == save(storage_providers, pk, row)
           sealed == set_credentials(STORAGE_ENCRYPTION_KEY, credentials)
       IN IF ~fields_valid(data, NoInstance) \/ ~v.ok
          THEN /\ response' = Response(u, "create", 0, 400, {}, {}, "ValidationError", "unused")
               /\ UNCHANGED <<storage_providers, next_provider_id>>
          ELSE IF credentials = <<>>
          THEN /\ storage_providers' = created
               /\ next_provider_id' = pk + 1
               /\ response' = Response(u, "create", pk, 201,
                                       {StorageProviderSerializer(pk, row)}, {}, "", "unused")
          ELSE IF ~sealed.ok
          THEN /\ storage_providers' = created
               /\ next_provider_id' = pk + 1
               /\ response' = Response(u, "create", pk, 500, {}, {}, "ValueError", "unused")
          ELSE LET row2 == [row EXCEPT !.encrypted_credentials = sealed.value]
               IN /\ storage_providers' = save(created, pk, row2)
                  /\ next_provider_id' = pk + 1
                  /\ response' = Response(u, "create", pk, 201,
                                          {StorageProviderSerializer(pk, row2)}, {}, "", "unused")

\* An update that seals whatever map the request carries, the empty one too
UpdateProvider_resealing(u, pk, data) ==
    /\ UNCHANGED <<images, next_provider_id, next_image_id, remote, log,
                   STORAGE_ENCRYPTION_KEY, requests, call, storage_backend>>
    /\ IF pk \notin provider_queryset(u)
       THEN /\ response' = Response(u, "update", pk, 404, {}, {}, "NotFound", "unused")
            /\ UNCHANGED storage_providers
       ELSE LET instance == storage_providers[pk]
                v == validate(data, instance)
                credentials == Get(data, "credentials", <<>>)
                attrs == DOMAIN data \ {"credentials"}
                row == [f \in DOMAIN instance |->
                          IF f \in attrs THEN data[f] ELSE instance[f]]
                sealed == set_credentials(STORAGE_ENCRYPTION_KEY, credentials)
            IN IF ~fields_valid(data, instance) \/ ~v.ok
               THEN /\ response' = Response(u, "update", pk, 400, {}, {},
                                            "ValidationError", "unused")
                    /\ UNCHANGED storage_providers
               ELSE IF "credentials" \notin DOMAIN data
               THEN /\ storage_providers' = save(storage_providers, pk, row)
                    /\ response' = Response(u, "update", pk, 200,
                                            {StorageProviderSerializer(pk, row)}, {}, "", "unused")
               ELSE IF ~sealed.ok
               THEN /\ response' = Response(u, "update", pk, 500, {}, {}, "ValueError", "unused")
                    /\ UNCHANGED storage_providers
               ELSE LET row2 == [row EXCEPT !.encrypted_credentials = sealed.value]
                    IN /\ storage_providers' = save(storage_providers, pk, row2)
                       /\ response' = Response(u, "update", pk, 200,
                                               {StorageProviderSerializer(pk, row2)}, {}, "",
                                               "unused")

\* PUT/PATCH /providers/{pk}/: StorageProviderSerializer.update
UpdateProvider(u, pk, data) ==
    /\ UNCHANGED <<images, next_provider_id, next_image_id, remote, log,
                   STORAGE_ENCRYPTION_KEY, requests, call, storage_backend>>
    /\ IF pk \notin provider_queryset(u)
       THEN /\ response' = Response(u, "update", pk, 404, {}, {}, "NotFound", "unused")
            /\ UNCHANGED storage_providers
       ELSE LET instance == storage_providers[pk]
                v == validate(data, instance)
                credentials == Get(data, "credentials", <<>>)
                attrs == DOMAIN data \ {"credentials"}
                row == [f \in DOMAIN instance |->
                          IF f \in attrs THEN data[f] ELSE instance[f]]
                sealed == set_credentials(STORAGE_ENCRYPTION_KEY, credentials)
            IN IF ~fields_valid(data, instance) \/ ~v.ok
               THEN /\ response' = Response(u, "update", pk, 400, {}, {},
                                            "ValidationError", "unused")
                    /\ UNCHANGED storage_providers
               ELSE IF credentials = <<>>
               THEN /\ storage_providers' = save(storage_providers, pk, row)
                    /\ response' = Response(u, "update", pk, 200,
                                            {StorageProviderSerializer(pk, row)}, {}, "", "unused")
               ELSE IF ~sealed.ok
               THEN /\ response' = Response(u, "update", pk, 500, {}, {}, "ValueError", "unused")
                    /\ UNCHANGED storage_providers
               ELSE LET row2 == [row EXCEPT !.encrypted_credentials = sealed.value]
                    IN /\ storage_providers' = save(storage_providers, pk, row2)
                       /\ response' = Response(u, "update", pk, 200,
                                               {StorageProviderSerializer(pk, row2)}, {}, "",
                                               "unused")

\* POST /providers/{pk}/set_default/
SetDefault(u, pk) ==
    /\ UNCHANGED <<images, next_provider_id, next_image_id, remote, log,
                   STORAGE_ENCRYPTION_KEY, requests, call, storage_backend>>
    /\ IF pk \notin provider_queryset(u)
       THEN /\ response' = Response(u, "set_default", pk, 404, {}, {}, "NotFound", "unused")
            /\ UNCHANGED storage_providers
       ELSE LET row == [storage_providers[pk] EXCEPT !.is_default = TRUE]
            IN /\ storage_providers' = save(storage_providers, pk, row)
               /\ response' = Response(u, "set_default", pk, 200,
                                       {StorageProviderSerializer(pk, row)}, {}, "", "unused")

\* A foreign key that lets the referenced row go
protected_never(pk) == FALSE

\* Image.storage_provider is on_delete=PROTECT: the delete of a provider row
\* that any image row names raises ProtectedError
protected(pk) == \E i \in DOMAIN images : images[i].storage_provider = pk

\* DELETE /providers/{pk}/
DeleteProvider(u, pk) ==
    /\ UNCHANGED <<images, next_provider_id, next_image_id, remote, log,
                   STORAGE_ENCRYPTION_KEY, requests, call, storage_backend>>
    /\ IF pk \notin provider_queryset(u)
       THEN /\ response' = Response(u, "delete", pk, 404, {}, {}, "NotFound", "unused")
            /\ UNCHANGED storage_providers
       ELSE IF protected(pk)
       THEN /\ response' = Response(u, "delete", pk, 500, {}, {}, "ProtectedError", "unused")
            /\ UNCHANGED storage_providers
       ELSE /\ storage_providers' = Restrict(storage_providers, DOMAIN storage_providers \ {pk})
            /\ response' = Response(u, "delete", pk, 204, {}, {}, "", "unused")

\* GET /providers/
ListProviders(u) ==
    /\ UNCHANGED <<storage_providers, images, next_provider_id, next_image_id, remote, log,
                   STORAGE_ENCRYPTION_KEY, requests, call, storage_backend>>
    /\ response' = Response(u, "list", 0, 200,
                            {StorageProviderListSerializer(pk, storage_providers[pk]) :
                                pk \in provider_queryset(u)}, {}, "", "unused")

\* GET /providers/{pk}/
RetrieveProvider(u, pk) ==
    /\ UNCHANGED <<storage_providers, images, next_provider_id, next_image_id, remote, log,
                   STORAGE_ENCRYPTION_KEY, requests, call, storage_backend>>
    /\ IF pk \notin provider_queryset(u)
       THEN response' = Response(u, "retrieve", pk, 404, {}, {}, "NotFound", "unused")
       ELSE response' = Response(u, "retrieve", pk, 200,
                                 {StorageProviderSerializer(pk, storage_providers[pk])}, {},
                                 "", "unused")

(***************************************************************************)
(* storage/backends.py.  A request meets the network in one condition:     *)
(* "ok", "unreachable" (connectivity failure) or "auth_failed".  A backend *)
(* operation returns [ok |-> TRUE, value |-> v] or the exception raised.   *)
(***************************************************************************)
NetConditions == {"ok", "unreachable", "auth_failed"}

Raise(error) == [ok |-> FALSE, error |-> error]
\* The KeyError of d[k] on a dict without k: it names k
RaiseKeyError(k) == [ok |-> FALSE, error |-> "KeyError", keys |-> {k}]
\* An exception raised once paramiko.Transport((host, port)) has been called
RaiseAfterConnect(error) == [ok |-> FALSE, error |-> error, connect_attempted |-> TRUE]
Return(value) == [ok |-> TRUE, value |-> value]

NetError(net) == IF net = "unreachable" THEN "ConnectionError" ELSE "AuthenticationError"

\* S3Backend.__init__: boto3.client opens no connection
S3Backend_init(credentials, config) ==
    IF "bucket" \notin DOMAIN config THEN RaiseKeyError("bucket")
    ELSE IF "access_key_id" \notin DOMAIN credentials THEN RaiseKeyError("access_key_id")
    ELSE IF "secret_access_key" \notin DOMAIN credentials
    THEN RaiseKeyError("secret_access_key")
    ELSE Return([type |-> "s3", bucket |-> config.bucket,
                 region |-> Get(config, "region", "us-east-1")])

\* AzureBlobBackend.__init__: the clients are built without a request
AzureBlobBackend_init(credentials, config) ==
    IF "container" \notin DOMAIN config THEN RaiseKeyError("container")
    ELSE IF "account_name" \notin DOMAIN credentials THEN RaiseKeyError("account_name")
    ELSE IF "account_key" \notin DOMAIN credentials THEN RaiseKeyError("account_key")
    ELSE Return([type |-> "azure", container |-> config.container])

\* GCSBackend.__init__: credentials_json is parsed at construction
GCSBackend_init(credentials, config) ==
    IF "bucket" \notin DOMAIN config THEN RaiseKeyError("bucket")
    ELSE IF "credentials_json" \notin DOMAIN credentials
    THEN RaiseKeyError("credentials_json")
    ELSE IF credentials.credentials_json = "malformed" THEN Raise("JSONDecodeError")
    ELSE Return([type |-> "gcs", bucket |-> config.bucket])

\* paramiko.Transport.is_active(): the session runs.  A transport is
\* "opened" (socket connected, session not started), "unauthenticated"
\* (session started, authentication refused), "active", "dropped" (the
\* connection was lost) or "closed".
Transport_is_active(state) == state \in {"active", "unauthenticated"}

\* The attributes SFTPBackend.__init__ sets before it calls _connect():
\* transport and sftp are None (0).  transports and clients list every
\* paramiko.Transport and SFTPClient the instance has created; transport and
\* sftp index them.
SFTPFresh(credentials) ==
    [has_secret |-> "password" \in DOMAIN credentials \/ "key_file" \in DOMAIN credentials,
     transport |-> 0, sftp |-> 0, transports |-> <<>>, clients |-> <<>>]

\* SFTPBackend._connect: the instance after the call and the exception it
\* raised ("" for none).  self.transport is assigned before the session is
\* authenticated, self.sftp only when from_transport returned.
SFTPBackend_connect(self, net) ==
    IF net = "unreachable" THEN [self |-> self, error |-> "ConnectionError"]
    ELSE LET t == Len(self.transports) + 1
             opened == [self EXCEPT !.transports = Append(@, "opened"), !.transport = t]
         IN IF ~self.has_secret THEN [self |-> opened, error |-> "SSHException"]
            ELSE IF net = "auth_failed"
            THEN [self |-> [opened EXCEPT !.transports[t] = "unauthenticated"],
                  error |-> "AuthenticationError"]
            ELSE [self |-> [opened EXCEPT !.transports[t] = "active",
                                          !.clients = Append(@, [transport |-> t,
                                                                 state |-> "open"]),
                                          !.sftp = Len(self.clients) + 1],
                  error |-> ""]

\* An _ensure_connected that never reconnects
SFTPBackend_ensure_connected_never(self, net) == [self |-> self, error |-> ""]

\* SFTPBackend._ensure_connected
SFTPBackend_ensure_connected(self, net) ==
    IF self.transport = 0 \/ ~Transport_is_active(self.transports[self.transport])
    THEN SFTPBackend_connect(self, net)
    ELSE [self |-> self, error |-> ""]

\* A __del__ that closes the SFTP session and leaves the transport
SFTPBackend_del_session_only(self) ==
    IF self.sftp # 0 THEN [self EXCEPT !.clients[self.sftp].state = "closed"] ELSE self

\* SFTPBackend.__del__
SFTPBackend_del(self) ==
    LET closed == IF self.sftp # 0
                  THEN [self EXCEPT !.clients[self.sftp].state = "closed"]
                  ELSE self
    IN IF closed.transport # 0
       THEN [closed EXCEPT !.transports[closed.transport] = "closed"]
       ELSE closed

\* SFTPBackend.__init__ and _connect: the transport is opened at construction;
\* with neither password nor key_file the transport is never authenticated
\* and SFTPClient.from_transport fails on the inactive session.
SFTPBackend_init(credentials, config, net) ==
    IF "host" \notin DOMAIN credentials THEN RaiseKeyError("host")
    ELSE IF "username" \notin DOMAIN credentials THEN RaiseKeyError("username")
    ELSE IF "remote_path" \notin DOMAIN config THEN RaiseKeyError("remote_path")
    ELSE LET connected == SFTPBackend_connect(SFTPFresh(credentials), net)
         IN IF connected.error # "" THEN RaiseAfterConnect(connected.error)
            ELSE Return([type |-> "sftp", remote_path |-> config.remote_path])

\* backend_class(credentials, config) for the class the factory looked up
backend_class(provider_type, credentials, config, net) ==
    CASE provider_type = "s3" -> S3Backend_init(credentials, config)
      [] provider_type = "azure" -> AzureBlobBackend_init(credentials, config)
      [] provider_type = "gcs" -> GCSBackend_init(credentials, config)
      [] provider_type = "sftp" -> SFTPBackend_init(credentials, config, net)

\* A factory that falls back to S3 for a type it does not know
get_storage_backend_fallback(key, storage_provider, net) ==
    LET credentials == get_credentials(key, storage_provider.encrypted_credentials)
        provider_type == IF storage_provider.provider_type \in PROVIDER_CHOICES
                         THEN storage_provider.provider_type ELSE "s3"
    IN IF ~credentials.ok THEN credentials
       ELSE backend_class(provider_type, credentials.value, storage_provider.config, net)

\* get_storage_backend
get_storage_backend(key, storage_provider, net) ==
    LET credentials == get_credentials(key, storage_provider.encrypted_credentials)
        config == storage_provider.config
        provider_type == storage_provider.provider_type
    IN IF ~credentials.ok THEN credentials
       ELSE IF provider_type = "s3" THEN S3Backend_init(credentials.value, config)
       ELSE IF provider_type = "azure" THEN AzureBlobBackend_init(credentials.value, config)
       ELSE IF provider_type = "gcs" THEN GCSBackend_init(credentials.value, config)
       ELSE IF provider_type = "sftp" THEN SFTPBackend_init(credentials.value, config, net)
       ELSE Raise("ValueError: Unsupported storage provider")

\* S3Backend.exists: the bare except turns every failure of head_object into False
S3Backend_exists(net, present) ==
    IF net = "ok" /\ present THEN Return(TRUE) ELSE Return(FALSE)

\* AzureBlobBackend.exists, GCSBackend.exists, SFTPBackend.exists
Other_exists(net, present) ==
    IF net # "ok" THEN Raise(NetError(net)) ELSE Return(present)

\* backend.exists(path)
Backend_exists(backend, net, present) ==
    IF backend.type = "s3" THEN S3Backend_exists(net, present)
    ELSE Other_exists(net, present)

\* backend.upload(file_obj, path): every variant raises what its client raises
Backend_upload(backend, net) ==
    IF net # "ok" THEN Raise(NetError(net)) ELSE Return("path")

\* backend.delete(path): S3 delete_object succeeds on an absent key; delete_blob,
\* blob.delete and sftp.remove raise when the object is absent
Backend_delete(backend, net, present) ==
    IF net # "ok" THEN Raise(NetError(net))
    ELSE IF backend.type # "s3" /\ ~present THEN Raise("NotFound")
    ELSE Return("None")

\* A test_connection that probes by writing the sentinel object
TestConnection_writing(u, pk, net) ==
    /\ pk \in provider_queryset(u)
    /\ remote' = remote \cup {<<pk, <<"_connection_test_">>>>}
    /\ response' = Response(u, "test_connection", pk, 200, {}, {}, "", net)
    /\ UNCHANGED <<storage_providers, images, next_provider_id, next_image_id, log,
                   STORAGE_ENCRYPTION_KEY, requests, call, storage_backend>>

\* POST /providers/{pk}/test_connection/
TestConnection(u, pk, net) ==
    /\ UNCHANGED <<storage_providers, images, next_provider_id, next_image_id, remote, log,
                   STORAGE_ENCRYPTION_KEY, requests, call, storage_backend>>
    /\ IF pk \notin provider_queryset(u)
       THEN response' = Response(u, "test_connection", pk, 404, {}, {}, "NotFound", "unused")
       ELSE LET backend == get_storage_backend(STORAGE_ENCRYPTION_KEY,
                                               storage_providers[pk], net)
                probe == Backend_exists(backend.value, net,
                                        <<pk, <<"_connection_test_">>>> \in remote)
            IN IF ~backend.ok
               THEN response' = Response(u, "test_connection", pk, 400, {}, {},
                                         backend.error, net)
               ELSE IF ~probe.ok
               THEN response' = Response(u, "test_connection", pk, 400, {}, {},
                                         probe.error, net)
               ELSE response' = Response(u, "test_connection", pk, 200, {}, {}, "", net)

(***************************************************************************)
(* images/views.py and images/serializers.py                               *)
(***************************************************************************)
\* A queryset that is not filtered by user
image_queryset_all(u) == DOMAIN images

\* ImageViewSet.get_queryset
image_queryset(u) == {pk \in DOMAIN images : images[pk].user = u}

\* ImageSerializer: storage_provider is the stored key, storage_provider_details
\* the list representation of the provider row it names
ImageSerializer(pk, row, providers) ==
    [id |-> pk,
     storage_path |-> row.storage_path,
     is_optimized |-> row.is_optimized,
     storage_provider |-> row.storage_provider,
     storage_provider_details |->
        StorageProviderListSerializer(row.storage_provider,
                                      providers[row.storage_provider])]

\* generate_storage_path: the uuid makes the path fresh; n stands for it
generate_storage_path(u, n) == <<"user", u, n>>

\* ImageUploadSerializer.validate_storage_provider and validate_image
upload_valid(u, data) ==
    /\ data.image = "valid"
    /\ "storage_provider" \in DOMAIN data =>
          /\ data.storage_provider \in DOMAIN storage_providers
          /\ storage_providers[data.storage_provider].user = u
          /\ storage_providers[data.storage_provider].is_active

\* A lookup of the default provider that leaves out is_active=True
default_providers_inactive_too(u) ==
    {pk \in DOMAIN storage_providers :
        storage_providers[pk].user = u /\ storage_providers[pk].is_default}

\* StorageProvider.objects.filter(user, is_default=True, is_active=True):
\* Meta.ordering puts the newest first
default_providers(u) ==
    {pk \in DOMAIN storage_providers :
        /\ storage_providers[pk].user = u
        /\ storage_providers[pk].is_default
        /\ storage_providers[pk].is_active}

Newest(S) == CHOOSE pk \in S : \A q \in S : q <= pk

\* A nullable column: None is <<>>, the value n is <<n>>
None == <<>>
Some(n) == <<n>>

\* The uploaded file: its length in bytes, and the length of the stream
\* optimize_image(image_file, quality=85, max_width=2048, max_height=2048)
\* returns for it.  A body that does not say takes a file of one byte that
\* is re-encoded to one byte.
optimize_image(data) == Get(data, "image_optimized_size", 1)

\* A percentage that is never reported below zero
optimization_percentage_clamped(original_size, optimized_size) ==
    IF optimized_size > original_size THEN 0
    ELSE ((original_size - optimized_size) * 100) \div original_size

\* ((original_size - optimized_size) / original_size) * 100, kept in whole
\* per cent (rounded down, so the sign is the sign of the quotient)
optimization_percentage(original_size, optimized_size) ==
    ((original_size - optimized_size) * 100) \div original_size

\* The Image row ImageViewSet.create writes after the upload
new_image(u, sp, path, optimize, original_size, optimized_size) ==
    [user |-> u, storage_provider |-> sp, storage_path |-> path,
     file_size |-> original_size,
     is_optimized |-> optimize,
     optimized_size |-> IF optimize THEN Some(optimized_size) ELSE None,
     optimization_percentage |->
        IF optimize THEN Some(optimization_percentage(original_size, optimized_size))
        ELSE None]

\* A create that writes the record whatever the upload did
upload_outcome_unchecked(backend, uploaded) == [created |-> TRUE, error |-> ""]

\* What ImageViewSet.create does once the provider is chosen: the upload, and
\* the record only after it.  [created, error]
upload_outcome(backend, uploaded) ==
    IF ~backend.ok THEN [created |-> FALSE, error |-> backend.error]
    ELSE IF ~uploaded.ok THEN [created |-> FALSE, error |-> uploaded.error]
    ELSE [created |-> TRUE, error |-> ""]

\* ImageViewSet.create
ImageViewSet_create(u, data, net) ==
    /\ UNCHANGED <<storage_providers, next_provider_id, log, STORAGE_ENCRYPTION_KEY, requests,
                   call, storage_backend>>
    /\ IF ~upload_valid(u, data)
       THEN /\ response' = Response(u, "upload", 0, 400, {}, {}, "ValidationError", "unused")
            /\ UNCHANGED <<images, next_image_id, remote>>
       ELSE IF "storage_provider" \notin DOMAIN data /\ default_providers(u) = {}
       THEN /\ response' = Response(u, "upload", 0, 400, {}, {},
                                    "No storage provider configured", "unused")
            /\ UNCHANGED <<images, next_image_id, remote>>
       ELSE LET sp == IF "storage_provider" \in DOMAIN data
                      THEN data.storage_provider
                      ELSE Newest(default_providers(u))
                pk == next_image_id
                storage_path == generate_storage_path(u, pk)
                backend == get_storage_backend(STORAGE_ENCRYPTION_KEY,
                                               storage_providers[sp], net)
                uploaded == Backend_upload(backend.value, net)
                outcome == upload_outcome(backend, uploaded)
                image == new_image(u, sp, storage_path, Get(data, "optimize", TRUE),
                                   Get(data, "image_size", 1), optimize_image(data))
            IN /\ remote' = IF backend.ok /\ uploaded.ok
                            THEN remote \cup {<<sp, storage_path>>}
                            ELSE remote
               /\ IF outcome.created
                  THEN /\ images' = write_row(images, pk, image)
                       /\ next_image_id' = pk + 1
                       /\ response' = Response(u, "upload", pk, 201, {},
                                               {ImageSerializer(pk, image, storage_providers)},
                                               "", net)
                  ELSE /\ UNCHANGED <<images, next_image_id>>
                       /\ response' = Response(u, "upload", 0, 500, {}, {}, outcome.error, net)

\* POST /images/, while the table has room within the bound
UploadImage(u, data, net) ==
    /\ next_image_id <= MaxImages
    /\ ImageViewSet_create(u, data, net)

\* A destroy that lets the storage error end the request
destroy_outcome_propagating(backend, deleted) ==
    IF ~backend.ok \/ ~deleted.ok
    THEN [logged |-> FALSE, record_deleted |-> FALSE, status |-> 500]
    ELSE [logged |-> FALSE, record_deleted |-> TRUE, status |-> 204]

\* What ImageViewSet.destroy does with the outcome of the storage delete:
\* whether the error is logged and whether the record is deleted.
destroy_outcome(backend, deleted) ==
    [logged |-> ~backend.ok \/ ~deleted.ok, record_deleted |-> TRUE, status |-> 204]

\* DELETE /images/{pk}/
DestroyImage(u, pk, net) ==
    /\ UNCHANGED <<storage_providers, next_provider_id, next_image_id,
                   STORAGE_ENCRYPTION_KEY, requests, call, storage_backend>>
    /\ IF pk \notin image_queryset(u)
       THEN /\ response' = Response(u, "destroy", pk, 404, {}, {}, "NotFound", "unused")
            /\ UNCHANGED <<images, remote, log>>
       ELSE LET image == images[pk]
                object == <<image.storage_provider, image.storage_path>>
                backend == get_storage_backend(STORAGE_ENCRYPTION_KEY,
                                               storage_providers[image.storage_provider], net)
                deleted == Backend_delete(backend.value, net, object \in remote)
                outcome == destroy_outcome(backend, deleted)
            IN /\ remote' = IF backend.ok /\ deleted.ok THEN remote \ {object} ELSE remote
               /\ log' = IF outcome.logged
                         THEN log \cup {<<"Error deleting image from storage", pk>>}
                         ELSE log
               /\ images' = IF outcome.record_deleted
                            THEN Restrict(images, DOMAIN images \ {pk})
                            ELSE images
               /\ response' = Response(u, "destroy", pk, outcome.status, {}, {},
                                       IF outcome.logged THEN "logged" ELSE "", net)

\* The keys ImageSerializer accepts for storage_provider: a
\* PrimaryKeyRelatedField over StorageProvider.objects.all()
storage_provider_choices(u) == DOMAIN storage_providers

\* PUT/PATCH /images/{pk}/
UpdateImage(u, pk, data) ==
    /\ UNCHANGED <<storage_providers, next_provider_id, next_image_id, remote, log,
                   STORAGE_ENCRYPTION_KEY, requests, call, storage_backend>>
    /\ IF pk \notin image_queryset(u)
       THEN /\ response' = Response(u, "update_image", pk, 404, {}, {}, "NotFound", "unused")
            /\ UNCHANGED images
       ELSE IF /\ "storage_provider" \in DOMAIN data
               /\ data.storage_provider \notin storage_provider_choices(u)
       THEN /\ response' = Response(u, "update_image", pk, 400, {}, {},
                                    "ValidationError", "unused")
            /\ UNCHANGED images
       ELSE LET image == [f \in DOMAIN images[pk] |->
                             IF f \in DOMAIN data THEN data[f] ELSE images[pk][f]]
            IN /\ images' = write_row(images, pk, image)
               /\ response' = Response(u, "update_image", pk, 200, {},
                                       {ImageSerializer(pk, image, storage_providers)},
                                       "", "unused")

\* GET /images/
ListImages(u) ==
    /\ UNCHANGED <<storage_providers, images, next_provider_id, next_image_id, remote, log,
                   STORAGE_ENCRYPTION_KEY, requests, call, storage_backend>>
    /\ response' = Response(u, "list_images", 0, 200, {},
                            {ImageSerializer(pk, images[pk], storage_providers) :
                                pk \in image_queryset(u)}, "", "unused")

\* GET /images/{pk}/
RetrieveImage(u, pk) ==
    /\ UNCHANGED <<storage_providers, images, next_provider_id, next_image_id, remote, log,
                   STORAGE_ENCRYPTION_KEY, requests, call, storage_backend>>
    /\ IF pk \notin image_queryset(u)
       THEN response' = Response(u, "retrieve_image", pk, 404, {}, {}, "NotFound", "unused")
       ELSE response' = Response(u, "retrieve_image", pk, 200, {},
                                 {ImageSerializer(pk, images[pk], storage_providers)},
                                 "", "unused")

\* sum(f[i] for i in S)
RECURSIVE sum(_, _)
sum(f, S) ==
    IF S = {} THEN 0
    ELSE LET i == CHOOSE i \in S : TRUE
         IN f[i] + sum(f, S \ {i})

\* The body of the response of ImageViewSet.stats (total_size_mb and
\* total_saved_mb are total_size_bytes and total_saved_bytes in megabytes).
\* "if img.optimized_size" passes the rows whose optimized_size is neither
\* None nor 0.
stats(u) ==
    LET imgs == image_queryset(u)
        optimized == {i \in imgs : images[i].is_optimized}
        counted == {i \in optimized : /\ images[i].optimized_size # None
                                      /\ images[i].optimized_size[1] # 0}
    IN [total_images |-> Cardinality(imgs),
        total_size_bytes |-> sum([i \in imgs |-> images[i].file_size], imgs),
        optimized_images |-> Cardinality(optimized),
        total_saved_bytes |->
            sum([i \in counted |-> images[i].file_size - images[i].optimized_size[1]],
                counted)]

\* GET /images/stats/
Stats(u) ==
    /\ UNCHANGED <<storage_providers, images, next_provider_id, next_image_id, remote, log,
                   STORAGE_ENCRYPTION_KEY, requests, call, storage_backend>>
    /\ response' = [stats |-> stats(u)]
                    @@ Response(u, "stats", 0, 200, {}, {}, "", "unused")

(***************************************************************************)
(* Request bodies.                                                         *)
(***************************************************************************)
S3Config == [bucket |-> "bucket", region |-> "eu-west-1"]
S3Credentials == [access_key_id |-> "AKIA1", secret_access_key |-> "secret1"]
S3Credentials2 == [access_key_id |-> "AKIA2", secret_access_key |-> "secret2"]
AzureConfig == [container |-> "container"]
AzureCredentials == [account_name |-> "account", account_key |-> "accountkey"]
GCSConfig == [bucket |-> "bucket"]
GCSCredentials == [credentials_json |-> "service_account"]
GCSMalformed == [credentials_json |-> "malformed"]
SFTPConfig == [remote_path |-> "/srv/images"]
SFTPCredentials == [host |-> "host", username |-> "user", password |-> "pw"]
SFTPNoSecret == [host |-> "host", username |-> "user"]
SFTPAllCredentials ==
    [host |-> "host", username |-> "user", password |-> "pw", key_file |-> "id_rsa"]

\* Every map made of some of the keys of d
SubMaps(d) == {Restrict(d, F) : F \in SUBSET DOMAIN d}

\* The credentials and config a backend class can be called with: the
\* complete maps of its type with any of the keys left out
ConstructorCredentials(provider_type) ==
    CASE provider_type = "s3" -> SubMaps(S3Credentials)
      [] provider_type = "azure" -> SubMaps(AzureCredentials)
      [] provider_type = "gcs" -> SubMaps(GCSCredentials)
      [] provider_type = "sftp" -> SubMaps(SFTPAllCredentials)

ConstructorConfigs(provider_type) ==
    CASE provider_type = "s3" -> SubMaps(S3Config)
      [] provider_type = "azure" -> SubMaps(AzureConfig)
      [] provider_type = "gcs" -> SubMaps(GCSConfig)
      [] provider_type = "sftp" -> SubMaps(SFTPConfig)

\* Provider rows as the ORM can hold them: a provider_type outside the
\* choices included (the choices are checked by forms and serializers, not
\* by save()), with no, current or stale sealed credentials
FactoryRecords ==
    {[user |-> "u1", provider_type |-> t[1], is_default |-> FALSE, is_active |-> TRUE,
      config |-> t[2], encrypted_credentials |-> e] :
        t \in {<<"s3", S3Config>>, <<"azure", AzureConfig>>, <<"gcs", GCSConfig>>,
               <<"sftp", SFTPConfig>>, <<"ftp", SFTPConfig>>, <<"", <<>> >>},
        e \in {<<>>}
              \cup {Fernet_encrypt(k, json_dumps(c)) :
                        k \in {"fernet-key", "old-key"},
                        c \in {S3Credentials, AzureCredentials, GCSCredentials,
                               SFTPCredentials, <<>>}}}

ProviderBody(provider_type, config, credentials, is_default, is_active) ==
    [provider_type |-> provider_type, config |-> config, credentials |-> credentials,
     is_default |-> is_default, is_active |-> is_active]

\* Bodies of POST /providers/ for the registry: with and without credentials
\* and is_default, one with an incomplete credential map, one with no config
RegistryCreateRequests ==
    {Restrict(ProviderBody("s3", S3Config, c, TRUE, TRUE), F) :
        c \in {S3Credentials, S3Credentials2},
        F \in {{"provider_type", "config"},
               {"provider_type", "config", "is_default"},
               {"provider_type", "config", "credentials"},
               {"provider_type", "config", "credentials", "is_default"}}}
    \cup {Restrict(ProviderBody("s3", S3Config, [access_key_id |-> "AKIA1"], TRUE, TRUE),
                   {"provider_type", "config", "credentials"}),
          Restrict(ProviderBody("s3", S3Config, <<>>, TRUE, TRUE),
                   {"provider_type", "config", "credentials", "is_default"}),
          Restrict(ProviderBody("azure", AzureConfig, AzureCredentials, TRUE, TRUE),
                   {"provider_type", "credentials"}),
          Restrict(ProviderBody("ftp", <<>>, <<>>, TRUE, TRUE), {"provider_type"})}

\* Bodies of PATCH /providers/{pk}/
RegistryUpdateRequests ==
    {Restrict(ProviderBody("s3", S3Config, c, d, TRUE), F) :
        c \in {S3Credentials, S3Credentials2}, d \in BOOLEAN,
        F \in {{}, {"is_default"}, {"credentials"}, {"credentials", "is_default"}}}
    \cup {Restrict(ProviderBody("s3", S3Config, [access_key_id |-> "AKIA1"], TRUE, TRUE),
                   {"credentials"}),
          Restrict(ProviderBody("s3", S3Config, <<>>, TRUE, TRUE), {"credentials"})}

EncryptionKeys == {"", "fernet-key"}

Idle == [pc |-> "idle"]

NoCall == [op |-> "none"]
NoBackend == [type |-> "none"]

(***************************************************************************)
(* The state after the migrations: empty tables.                           *)
(***************************************************************************)
Init ==
    /\ storage_providers = <<>>
    /\ images = <<>>
    /\ next_provider_id = 1
    /\ next_image_id = 1
    /\ remote = {}
    /\ log = {}
    /\ response = NoResponse
    /\ STORAGE_ENCRYPTION_KEY \in EncryptionKeys
    /\ requests = [p \in Procs |-> Idle]
    /\ call = NoCall
    /\ storage_backend = NoBackend

\* The provider registry, one request at a time
Next ==
    \E u \in Users :
        \/ \E data \in RegistryCreateRequests : CreateProvider(u, data)
        \/ \E pk \in ProviderIds, data \in RegistryUpdateRequests : UpdateProvider(u, pk, data)
        \/ \E pk \in ProviderIds : SetDefault(u, pk)
        \/ \E pk \in ProviderIds : DeleteProvider(u, pk)
        \/ ListProviders(u)
        \/ \E pk \in ProviderIds : RetrieveProvider(u, pk)

Spec == Init /\ [][Next]_vars

(***************************************************************************)
(* set_default as the statements it runs, for requests served at the same  *)
(* time: get_object, the UPDATE of the other rows, the UPDATE of the row.  *)
(* No transaction spans them (views.py opens none), so each statement      *)
(* commits on its own.                                                     *)
(***************************************************************************)
AllIdle == \A p \in Procs : requests[p].pc = "idle"

\* self.get_object(); storage_provider.is_default = True
SetDefault_get_object(p, u, pk) ==
    /\ requests[p].pc = "idle"
    /\ pk \in provider_queryset(u)
    /\ requests' = [requests EXCEPT ![p] =
                        [pc |-> "loaded", user |-> u, pk |-> pk,
                         instance |-> [storage_providers[pk] EXCEPT !.is_default = TRUE]]]
    /\ UNCHANGED <<storage_providers, images, next_provider_id, next_image_id, remote, log,
                   response, STORAGE_ENCRYPTION_KEY, call, storage_backend>>

\* save(): StorageProvider.objects.filter(...).exclude(pk=self.pk).update(is_default=False)
SetDefault_clear(p) ==
    /\ requests[p].pc = "loaded"
    /\ storage_providers' =
          clear_other_defaults(storage_providers, requests[p].pk, requests[p].instance)
    /\ requests' = [requests EXCEPT ![p].pc = "cleared"]
    /\ UNCHANGED <<images, next_provider_id, next_image_id, remote, log, response,
                   STORAGE_ENCRYPTION_KEY, call, storage_backend>>

\* save(): super().save(), then the response
SetDefault_write(p) ==
    /\ requests[p].pc = "cleared"
    /\ storage_providers' = write_row(storage_providers, requests[p].pk, requests[p].instance)
    /\ requests' = [requests EXCEPT ![p].pc = "done"]
    /\ response' = Response(requests[p].user, "set_default", requests[p].pk, 200,
                            {StorageProviderSerializer(requests[p].pk, requests[p].instance)},
                            {}, "", "unused")
    /\ UNCHANGED <<images, next_provider_id, next_image_id, remote, log,
                   STORAGE_ENCRYPTION_KEY, call, storage_backend>>

\* Bodies of POST /providers/ that set up the providers of the race
ConcurrentCreateRequests ==
    {Restrict(ProviderBody("s3", S3Config, <<>>, d, TRUE),
              {"provider_type", "config", "is_default"}) : d \in BOOLEAN}

\* The providers are created first, one request at a time; then the two
\* set_default requests run with their statements interleaved.
NextConcurrent ==
    \/ \E u \in Users, data \in ConcurrentCreateRequests : AllIdle /\ CreateProvider(u, data)
    \/ \E p \in Procs, u \in Users, pk \in ProviderIds : SetDefault_get_object(p, u, pk)
    \/ \E p \in Procs : SetDefault_clear(p)
    \/ \E p \in Procs : SetDefault_write(p)

SpecConcurrent == Init /\ [][NextConcurrent]_vars

\* C2: when two set_default calls for different providers of the same user
\* have both completed, whatever the interleaving of their statements, the
\* user has exactly one default provider: the target of the call that wrote
\* last.
C2_ConcurrentSetDefault ==
    (/\ \A p \in Procs : requests[p].pc = "done"
     /\ requests["r1"].user = requests["r2"].user
     /\ requests["r1"].pk # requests["r2"].pk)
    => defaults_of(requests["r1"].user) = {response.target}

(***************************************************************************)
(* A provider update as the statements it runs, next to a set_default of   *)
(* another request: get_object and the setattr loop, then save(): the      *)
(* UPDATE of the other rows when the loaded object is default, and the     *)
(* UPDATE of the row, which writes every column of the loaded object.      *)
(***************************************************************************)
\* self.get_object(); serializer.is_valid(); for attr, value in
\* validated_data.items(): setattr(instance, attr, value)
UpdateProvider_get_object(p, u, pk, data) ==
    /\ requests[p].pc = "idle"
    /\ pk \in provider_queryset(u)
    /\ fields_valid(data, storage_providers[pk])
    /\ validate(data, storage_providers[pk]).ok
    /\ Get(data, "credentials", <<>>) = <<>>
    /\ requests' = [requests EXCEPT ![p] =
                        [pc |-> "update_loaded", user |-> u, pk |-> pk, body |-> data,
                         instance |-> [f \in DOMAIN storage_providers[pk] |->
                                          IF f \in DOMAIN data \ {"credentials"}
                                          THEN data[f] ELSE storage_providers[pk][f]]]]
    /\ UNCHANGED <<storage_providers, images, next_provider_id, next_image_id, remote, log,
                   response, STORAGE_ENCRYPTION_KEY, call, storage_backend>>

\* instance.save(): the update of the other rows
UpdateProvider_clear(p) ==
    /\ requests[p].pc = "update_loaded"
    /\ storage_providers' =
          clear_other_defaults(storage_providers, requests[p].pk, requests[p].instance)
    /\ requests' = [requests EXCEPT ![p].pc = "update_cleared"]
    /\ UNCHANGED <<images, next_provider_id, next_image_id, remote, log, response,
                   STORAGE_ENCRYPTION_KEY, call, storage_backend>>

\* instance.save(): super().save(), then the response
UpdateProvider_write(p) ==
    /\ requests[p].pc = "update_cleared"
    /\ storage_providers' = write_row(storage_providers, requests[p].pk, requests[p].instance)
    /\ requests' = [requests EXCEPT ![p].pc = "updated"]
    /\ response' = Response(requests[p].user, "update", requests[p].pk, 200,
                            {StorageProviderSerializer(requests[p].pk, requests[p].instance)},
                            {}, "", "unused")
    /\ UNCHANGED <<images, next_provider_id, next_image_id, remote, log,
                   STORAGE_ENCRYPTION_KEY, call, storage_backend>>

\* The providers are created first; then request r1 is a set_default and
\* request r2 an update without is_default, their statements interleaved.
NextUpdateRace ==
    \/ \E u \in Users, data \in ConcurrentCreateRequests : AllIdle /\ CreateProvider(u, data)
    \/ \E u \in Users, pk \in ProviderIds : SetDefault_get_object("r1", u, pk)
    \/ SetDefault_clear("r1")
    \/ SetDefault_write("r1")
    \/ \E u \in Users, pk \in ProviderIds, data \in {<<>>, [is_active |-> FALSE]} :
          UpdateProvider_get_object("r2", u, pk, data)
    \/ UpdateProvider_clear("r2")
    \/ UpdateProvider_write("r2")

SpecUpdateRace == Init /\ [][NextUpdateRace]_vars

(***************************************************************************)
(* The image endpoints over a few providers.                               *)
(***************************************************************************)
ImagesCreateRequests ==
    {Restrict(ProviderBody("s3", S3Config, S3Credentials, TRUE, TRUE),
              {"provider_type", "config", "credentials", "is_default"}),
     Restrict(ProviderBody("azure", AzureConfig, AzureCredentials, TRUE, TRUE),
              {"provider_type", "config", "credentials"})}

\* Bodies of POST /images/
UploadRequests ==
    {[image |-> "valid"], [image |-> "invalid"]}
    \cup {[image |-> "valid", storage_provider |-> pk] : pk \in ProviderIds}

\* Bodies of PATCH /images/{pk}/: tags only, or another storage_provider
ImageUpdateRequests == {<<>>} \cup {[storage_provider |-> pk] : pk \in ProviderIds}

NextImages ==
    \E u \in {"u1"} :
        \/ \E data \in ImagesCreateRequests : CreateProvider(u, data)
        \/ \E pk \in ProviderIds : DeleteProvider(u, pk)
        \/ \E data \in UploadRequests, net \in NetConditions : UploadImage(u, data, net)
        \/ \E pk \in ImageIds, data \in ImageUpdateRequests : UpdateImage(u, pk, data)
        \/ \E pk \in ImageIds, net \in NetConditions : DestroyImage(u, pk, net)

SpecImages == Init /\ [][NextImages]_vars

(***************************************************************************)
(* Every endpoint, for both users.                                         *)
(***************************************************************************)
NextIsolation ==
    \E u \in Users :
        \/ \E data \in ImagesCreateRequests : CreateProvider(u, data)
        \/ \E pk \in ProviderIds, data \in {[is_active |-> FALSE], [is_default |-> TRUE]} : UpdateProvider(u, pk, data)
        \/ \E pk \in ProviderIds : SetDefault(u, pk)
        \/ \E pk \in ProviderIds : DeleteProvider(u, pk)
        \/ ListProviders(u)
        \/ \E pk \in ProviderIds : RetrieveProvider(u, pk)
        \/ \E pk \in ProviderIds, net \in NetConditions : TestConnection(u, pk, net)
        \/ \E data \in UploadRequests \cup {[image |-> "valid", optimize |-> FALSE]},
              net \in NetConditions : UploadImage(u, data, net)
        \/ \E pk \in ImageIds, data \in ImageUpdateRequests : UpdateImage(u, pk, data)
        \/ \E pk \in ImageIds, net \in NetConditions : DestroyImage(u, pk, net)
        \/ ListImages(u)
        \/ \E pk \in ImageIds : RetrieveImage(u, pk)

SpecIsolation == Init /\ [][NextIsolation]_vars

(***************************************************************************)
(* test_connection over every backend variant.                             *)
(***************************************************************************)
ConnectionCreateRequests ==
    {Restrict(ProviderBody("s3", S3Config, S3Credentials, FALSE, TRUE), F) :
        F \in {{"provider_type", "config"}, {"provider_type", "config", "credentials"}}}
    \cup {Restrict(ProviderBody("azure", AzureConfig, AzureCredentials, FALSE, TRUE),
                   {"provider_type", "config", "credentials"}),
          Restrict(ProviderBody("gcs", GCSConfig, GCSCredentials, FALSE, TRUE),
                   {"provider_type", "config", "credentials"}),
          Restrict(ProviderBody("gcs", GCSConfig, GCSMalformed, FALSE, TRUE),
                   {"provider_type", "config", "credentials"}),
          Restrict(ProviderBody("sftp", SFTPConfig, SFTPCredentials, FALSE, TRUE),
                   {"provider_type", "config", "credentials"}),
          Restrict(ProviderBody("sftp", SFTPConfig, SFTPNoSecret, FALSE, TRUE),
                   {"provider_type", "config", "credentials"})}

NextConnection ==
    \E u \in Users :
        \/ \E data \in ConnectionCreateRequests : CreateProvider(u, data)
        \/ \E pk \in ProviderIds, net \in NetConditions : TestConnection(u, pk, net)

SpecConnection == Init /\ [][NextConnection]_vars

(***************************************************************************)
(* test_connection next to uploads: the tables and the stores hold rows    *)
(* and objects when the probe runs.                                        *)
(***************************************************************************)
NextProbe ==
    \E u \in {"u1"} :
        \/ \E data \in ImagesCreateRequests : CreateProvider(u, data)
        \/ \E data \in {[image |-> "valid"]}, net \in NetConditions : UploadImage(u, data, net)
        \/ \E pk \in ProviderIds, net \in NetConditions : TestConnection(u, pk, net)

SpecProbe == Init /\ [][NextProbe]_vars

(***************************************************************************)
(* Uploads that name no provider, over providers that are created default  *)
(* or not, and deactivated.                                                *)
(***************************************************************************)
NextDefaultUpload ==
    \E u \in Users :
        \/ \E data \in ImagesCreateRequests : CreateProvider(u, data)
        \/ \E pk \in ProviderIds : UpdateProvider(u, pk, [is_active |-> FALSE])
        \/ \E net \in NetConditions : UploadImage(u, [image |-> "valid"], net)

SpecDefaultUpload == Init /\ [][NextDefaultUpload]_vars

(***************************************************************************)
(* Uploads of files of several sizes, optimized or not.                    *)
(***************************************************************************)
StatsCreateRequests ==
    {Restrict(ProviderBody("s3", S3Config, S3Credentials, TRUE, TRUE),
              {"provider_type", "config", "credentials", "is_default"})}

\* Bodies of POST /images/: the file has from 1 to MaxBytes bytes, and the
\* optimizer makes of it a stream of 1 to MaxBytes + 1 bytes
SizedUploadRequests ==
    {[image |-> "valid", optimize |-> optimize, image_size |-> original_size,
      image_optimized_size |-> optimized_size] :
        optimize \in BOOLEAN, original_size \in 1..MaxBytes,
        optimized_size \in 1..(MaxBytes + 1)}

NextOptimize ==
    \E u \in Users :
        \/ \E data \in StatsCreateRequests : CreateProvider(u, data)
        \/ \E data \in SizedUploadRequests, net \in {"ok", "unreachable"} :
              UploadImage(u, data, net)

SpecOptimize == Init /\ [][NextOptimize]_vars

(***************************************************************************)
(* The statistics of both users over a few images: unoptimized, optimized  *)
(* to a shorter stream, optimized to a longer one.                         *)
(***************************************************************************)
NextStats ==
    \E u \in Users :
        \/ \E data \in StatsCreateRequests : CreateProvider(u, data)
        \/ \E data \in
                {[image |-> "valid", optimize |-> FALSE, image_size |-> 2,
                  image_optimized_size |-> 1],
                 [image |-> "valid", optimize |-> TRUE, image_size |-> 3,
                  image_optimized_size |-> 1],
                 [image |-> "valid", optimize |-> TRUE, image_size |-> 1,
                  image_optimized_size |-> 2]} :
              /\ next_image_id <= MaxStatsImages
              /\ ImageViewSet_create(u, data, "ok")
        \/ Stats(u)

SpecStats == Init /\ [][NextStats]_vars

(***************************************************************************)
(* A backend instance over a store double.  The instance keeps its         *)
(* attributes, the double keeps objects (path -> content) and, for SFTP,   *)
(* the directories of the server.  Paths are sequences of components,      *)
(* contents sequences of bytes, a file object is its content and position. *)
(***************************************************************************)
BytesIO(content) == [content |-> content, pos |-> 0]
\* file_obj.read(): what is left from the position on
read(file_obj) == SubSeq(file_obj.content, file_obj.pos + 1, Len(file_obj.content))
seek(file_obj, offset) == [file_obj EXCEPT !.pos = offset]

\* file_obj = BytesIO(); <client writes content into it>; file_obj.seek(0)
downloaded(content) == seek([content |-> content, pos |-> Len(content)], 0)

store_put(objects, path, content) ==
    [q \in DOMAIN objects \cup {path} |-> IF q = path THEN content ELSE objects[q]]
store_remove(objects, path) == Restrict(objects, DOMAIN objects \ {path})

\* The components of config['remote_path'] = "/srv/images"
SFTPRemotePath == <<"srv", "images">>
os_path_join(a, b) == a \o b
os_path_dirname(path) == SubSeq(path, 1, Len(path) - 1)

\* S3Backend, AzureBlobBackend, GCSBackend: upload
ObjectStore_upload(self, file_obj, path, net) ==
    IF net # "ok" THEN [self |-> self, ret |-> Raise(NetError(net))]
    ELSE [self |-> [self EXCEPT !.objects = store_put(@, path, read(file_obj))],
          ret |-> Return(path)]

\* S3Backend, AzureBlobBackend, GCSBackend: download
ObjectStore_download(self, path, net) ==
    IF net # "ok" THEN [self |-> self, ret |-> Raise(NetError(net))]
    ELSE IF path \notin DOMAIN self.objects THEN [self |-> self, ret |-> Raise("NotFound")]
    ELSE [self |-> self, ret |-> Return(downloaded(self.objects[path]))]

\* S3Backend, AzureBlobBackend, GCSBackend: delete
ObjectStore_delete(self, path, net) ==
    LET ret == Backend_delete(self, net, path \in DOMAIN self.objects)
    IN [self |-> IF ret.ok THEN [self EXCEPT !.objects = store_remove(@, path)] ELSE self,
        ret |-> ret]

\* S3Backend, AzureBlobBackend, GCSBackend: exists
ObjectStore_exists(self, path, net) ==
    [self |-> self, ret |-> Backend_exists(self, net, path \in DOMAIN self.objects)]

\* Whether self.transport is a transport and is active
SFTPConnected(self) ==
    self.transport # 0 /\ Transport_is_active(self.transports[self.transport])

\* Whether a command sent through self.sftp reaches the server: the client
\* is open and the transport it was made from is active
SFTPSessionAlive(self) ==
    /\ self.sftp # 0
    /\ self.clients[self.sftp].state = "open"
    /\ self.transports[self.clients[self.sftp].transport] = "active"

\* self.sftp.<command>(...): commands keeps every command the instance has
\* issued with the connection state it was issued in: whether self.transport
\* was active, and whether the session of self.sftp was alive
SFTPIssue(self, names) ==
    [self EXCEPT !.commands = @ \cup {[command |-> n, connected |-> SFTPConnected(self),
                                          session |-> SFTPSessionAlive(self)] :
                                         n \in names}]

\* A _mkdir_p that gives up at the first directory it cannot create
RECURSIVE SFTPBackend_mkdir_p_stopping(_, _, _, _)
SFTPBackend_mkdir_p_stopping(server, remote_directory, k, mkdirs) ==
    IF k > Len(remote_directory) THEN [dirs |-> server.dirs, mkdirs |-> mkdirs]
    ELSE LET dir_path == SubSeq(remote_directory, 1, k)
             made == /\ os_path_dirname(dir_path) \in server.dirs
                     /\ dir_path \notin server.denied
         IN IF dir_path \in server.dirs
            THEN SFTPBackend_mkdir_p_stopping(server, remote_directory, k + 1, mkdirs)
            ELSE IF made
            THEN SFTPBackend_mkdir_p_stopping([server EXCEPT !.dirs = @ \cup {dir_path}],
                                              remote_directory, k + 1,
                                              Append(mkdirs, [path |-> dir_path, ok |-> TRUE]))
            ELSE [dirs |-> server.dirs,
                  mkdirs |-> Append(mkdirs, [path |-> dir_path, ok |-> FALSE])]

\* SFTPBackend._mkdir_p, from the k-th ancestor down (the list dirs is in
\* this order after dirs.reverse()): stat, then mkdir where the directory is
\* missing.  The server makes the directory when its parent exists and it
\* does not refuse (denied); a mkdir that fails is passed over and the loop
\* goes on.  mkdirs lists the mkdir calls in the order they were sent.
RECURSIVE SFTPBackend_mkdir_p_from(_, _, _, _)
SFTPBackend_mkdir_p_from(server, remote_directory, k, mkdirs) ==
    IF k > Len(remote_directory) THEN [dirs |-> server.dirs, mkdirs |-> mkdirs]
    ELSE LET dir_path == SubSeq(remote_directory, 1, k)
             made == /\ os_path_dirname(dir_path) \in server.dirs
                     /\ dir_path \notin server.denied
         IN IF dir_path \in server.dirs
            THEN SFTPBackend_mkdir_p_from(server, remote_directory, k + 1, mkdirs)
            ELSE SFTPBackend_mkdir_p_from(
                    [server EXCEPT !.dirs = IF made THEN @ \cup {dir_path} ELSE @],
                    remote_directory, k + 1,
                    Append(mkdirs, [path |-> dir_path, ok |-> made]))

SFTPBackend_mkdir_p(server, remote_directory) ==
    SFTPBackend_mkdir_p_from(server, remote_directory, 1, <<>>)

\* SFTPBackend.upload
SFTPBackend_upload(self, file_obj, path, net) ==
    LET ensured == SFTPBackend_ensure_connected(self, net)
        remote_path == os_path_join(SFTPRemotePath, path)
        remote_dir == os_path_dirname(remote_path)
    IN IF ensured.error # ""
       THEN [self |-> [ensured.self EXCEPT !.mkdirs = <<>>], ret |-> Raise(ensured.error)]
       ELSE IF ~SFTPSessionAlive(ensured.self)
       THEN [self |-> [SFTPIssue(ensured.self, {"stat"}) EXCEPT !.mkdirs = <<>>],
             ret |-> Raise("SSHException")]
       ELSE LET found == remote_dir \in ensured.self.dirs
                made == IF found THEN [dirs |-> ensured.self.dirs, mkdirs |-> <<>>]
                        ELSE SFTPBackend_mkdir_p([dirs |-> ensured.self.dirs,
                                                  denied |-> ensured.self.denied],
                                                 remote_dir)
                issued == SFTPIssue(ensured.self, IF found THEN {"stat", "putfo"}
                                                 ELSE {"stat", "mkdir", "putfo"})
            IN IF remote_dir \notin made.dirs
               THEN [self |-> [issued EXCEPT !.dirs = made.dirs, !.mkdirs = made.mkdirs],
                     ret |-> Raise("FileNotFoundError")]
               ELSE [self |-> [issued EXCEPT !.dirs = made.dirs, !.mkdirs = made.mkdirs,
                                             !.objects = store_put(@, remote_path,
                                                                   read(file_obj))],
                     ret |-> Return(path)]

\* SFTPBackend.download
SFTPBackend_download(self, path, net) ==
    LET ensured == SFTPBackend_ensure_connected(self, net)
        remote_path == os_path_join(SFTPRemotePath, path)
        issued == SFTPIssue(ensured.self, {"getfo"})
    IN IF ensured.error # "" THEN [self |-> ensured.self, ret |-> Raise(ensured.error)]
       ELSE IF ~SFTPSessionAlive(ensured.self) THEN [self |-> issued, ret |-> Raise("SSHException")]
       ELSE IF remote_path \notin DOMAIN issued.objects
       THEN [self |-> issued, ret |-> Raise("FileNotFoundError")]
       ELSE [self |-> issued, ret |-> Return(downloaded(issued.objects[remote_path]))]

\* SFTPBackend.delete
SFTPBackend_delete(self, path, net) ==
    LET ensured == SFTPBackend_ensure_connected(self, net)
        remote_path == os_path_join(SFTPRemotePath, path)
        issued == SFTPIssue(ensured.self, {"remove"})
    IN IF ensured.error # "" THEN [self |-> ensured.self, ret |-> Raise(ensured.error)]
       ELSE IF ~SFTPSessionAlive(ensured.self) THEN [self |-> issued, ret |-> Raise("SSHException")]
       ELSE IF remote_path \notin DOMAIN issued.objects
       THEN [self |-> issued, ret |-> Raise("FileNotFoundError")]
       ELSE [self |-> [issued EXCEPT !.objects = store_remove(@, remote_path)],
             ret |-> Return("None")]

\* SFTPBackend.exists: sftp.stat answers for a file and for a directory
SFTPBackend_exists(self, path, net) ==
    LET ensured == SFTPBackend_ensure_connected(self, net)
        remote_path == os_path_join(SFTPRemotePath, path)
        issued == SFTPIssue(ensured.self, {"stat"})
    IN IF ensured.error # "" THEN [self |-> ensured.self, ret |-> Raise(ensured.error)]
       ELSE IF ~SFTPSessionAlive(ensured.self) THEN [self |-> issued, ret |-> Raise("SSHException")]
       ELSE [self |-> issued,
             ret |-> Return(remote_path \in DOMAIN issued.objects \cup issued.dirs)]

\* backend = backend_class(credentials, config), on a server whose
\* directories are dirs
NewBackend(provider_type, credentials, config, net, dirs) ==
    /\ storage_backend.type = "none"
    /\ LET ret == backend_class(provider_type, credentials, config, net)
           attributes ==
              IF provider_type = "sftp" /\ (ret.ok \/ "connect_attempted" \in DOMAIN ret)
              THEN SFTPBackend_connect(SFTPFresh(credentials), net).self
              ELSE SFTPFresh(credentials)
       IN storage_backend' =
            [type |-> provider_type,
             phase |-> IF ret.ok THEN "ready" ELSE "failed",
             has_secret |-> attributes.has_secret,
             transport |-> attributes.transport,
             sftp |-> attributes.sftp,
             transports |-> attributes.transports,
             clients |-> attributes.clients,
             commands |-> {},
             objects |-> <<>>,
             dirs |-> dirs,
             denied |-> {},
             mkdirs |-> <<>>,
             uploaded |-> <<>>,
             last |-> [op |-> "init", path |-> <<>>, ret |-> ret]]
    /\ UNCHANGED <<storage_providers, images, next_provider_id, next_image_id, remote, log,
                   response, STORAGE_ENCRYPTION_KEY, requests, call>>

\* The instance can take a call: it was built, is still referenced, and the
\* SFTP instance is connected or has transports left within the bound
BackendReady ==
    /\ storage_backend.type # "none"
    /\ storage_backend.phase = "ready"
    /\ storage_backend.type = "sftp" =>
          \/ SFTPConnected(storage_backend)
          \/ Len(storage_backend.transports) < MaxTransports

\* backend.upload(file_obj, path).  uploaded keeps, for each path, the
\* content of the last upload that returned and was not deleted since.
BackendUpload(file_obj, path, net) ==
    /\ BackendReady
    /\ LET done == IF storage_backend.type = "sftp"
                   THEN SFTPBackend_upload(storage_backend, file_obj, path, net)
                   ELSE ObjectStore_upload(storage_backend, file_obj, path, net)
       IN storage_backend' =
            [done.self EXCEPT !.last = [op |-> "upload", path |-> path, ret |-> done.ret],
                              !.uploaded = IF done.ret.ok
                                           THEN store_put(@, path, read(file_obj))
                                           ELSE @]
    /\ UNCHANGED <<storage_providers, images, next_provider_id, next_image_id, remote, log,
                   response, STORAGE_ENCRYPTION_KEY, requests, call>>

\* backend.download(path)
BackendDownload(path, net) ==
    /\ BackendReady
    /\ LET done == IF storage_backend.type = "sftp"
                   THEN SFTPBackend_download(storage_backend, path, net)
                   ELSE ObjectStore_download(storage_backend, path, net)
       IN storage_backend' =
            [done.self EXCEPT !.last = [op |-> "download", path |-> path, ret |-> done.ret]]
    /\ UNCHANGED <<storage_providers, images, next_provider_id, next_image_id, remote, log,
                   response, STORAGE_ENCRYPTION_KEY, requests, call>>

\* backend.delete(path)
BackendDelete(path, net) ==
    /\ BackendReady
    /\ LET done == IF storage_backend.type = "sftp"
                   THEN SFTPBackend_delete(storage_backend, path, net)
                   ELSE ObjectStore_delete(storage_backend, path, net)
       IN storage_backend' =
            [done.self EXCEPT !.last = [op |-> "delete", path |-> path, ret |-> done.ret],
                              !.uploaded = IF done.ret.ok THEN store_remove(@, path) ELSE @]
    /\ UNCHANGED <<storage_providers, images, next_provider_id, next_image_id, remote, log,
                   response, STORAGE_ENCRYPTION_KEY, requests, call>>

\* backend.exists(path)
BackendExists(path, net) ==
    /\ BackendReady
    /\ LET done == IF storage_backend.type = "sftp"
                   THEN SFTPBackend_exists(storage_backend, path, net)
                   ELSE ObjectStore_exists(storage_backend, path, net)
       IN storage_backend' =
            [done.self EXCEPT !.last = [op |-> "exists", path |-> path, ret |-> done.ret]]
    /\ UNCHANGED <<storage_providers, images, next_provider_id, next_image_id, remote, log,
                   response, STORAGE_ENCRYPTION_KEY, requests, call>>

\* The connection of a transport is lost: the server or the network ends it
Drop(t) ==
    /\ storage_backend.type = "sftp"
    /\ storage_backend.phase \in {"ready", "failed"}
    /\ t \in DOMAIN storage_backend.transports
    /\ Transport_is_active(storage_backend.transports[t])
    /\ storage_backend' = [storage_backend EXCEPT !.transports[t] = "dropped"]
    /\ UNCHANGED <<storage_providers, images, next_provider_id, next_image_id, remote, log,
                   response, STORAGE_ENCRYPTION_KEY, requests, call>>

\* The request that built the instance ends: the view returns, the last
\* reference to the instance goes and __del__ runs
Discard ==
    /\ storage_backend.type = "sftp"
    /\ storage_backend.phase \in {"ready", "failed"}
    /\ storage_backend' = [SFTPBackend_del(storage_backend) EXCEPT !.phase = "discarded"]
    /\ UNCHANGED <<storage_providers, images, next_provider_id, next_image_id, remote, log,
                   response, STORAGE_ENCRYPTION_KEY, requests, call>>

\* Paths uploads go to, and the paths exists and download are asked for:
\* the upload paths and a directory above one of them
UploadPaths == {<<"a.jpg">>, <<"u1", "b.jpg">>}
ProbePaths == UploadPaths \cup {<<"u1">>}

\* The directories of the SFTP server before the first upload: the root
\* alone, or remote_path in place
ServerDirs == {{<<>>}, {<<>>, <<"srv">>, <<"srv", "images">>}}

FullCredentials(provider_type) ==
    CASE provider_type = "s3" -> S3Credentials
      [] provider_type = "azure" -> AzureCredentials
      [] provider_type = "gcs" -> GCSCredentials
      [] provider_type = "sftp" -> SFTPCredentials

FullConfig(provider_type) ==
    CASE provider_type = "s3" -> S3Config
      [] provider_type = "azure" -> AzureConfig
      [] provider_type = "gcs" -> GCSConfig
      [] provider_type = "sftp" -> SFTPConfig

\* Every backend variant over a double that answers every call
NextStore ==
    \/ \E provider_type \in PROVIDER_CHOICES, dirs \in ServerDirs :
          NewBackend(provider_type, FullCredentials(provider_type),
                     FullConfig(provider_type), "ok", dirs)
    \/ \E content \in {<<>>, <<1>>, <<2, 3>>}, path \in UploadPaths :
          BackendUpload(BytesIO(content), path, "ok")
    \/ \E path \in ProbePaths : BackendDownload(path, "ok")
    \/ \E path \in UploadPaths : BackendDelete(path, "ok")
    \/ \E path \in ProbePaths : BackendExists(path, "ok")

SpecStore == Init /\ [][NextStore]_vars

\* One SFTP instance from its construction to its end, over a network that
\* refuses, fails and drops connections
SFTPConstructorCredentials ==
    {SFTPCredentials, SFTPNoSecret, [username |-> "user", password |-> "pw"]}

NextSFTP ==
    \/ \E credentials \in SFTPConstructorCredentials, net \in NetConditions :
          NewBackend("sftp", credentials, SFTPConfig, net, {<<>>})
    \/ \E net \in NetConditions : BackendUpload(BytesIO(<<1>>), <<"a.jpg">>, net)
    \/ \E net \in NetConditions : BackendDownload(<<"a.jpg">>, net)
    \/ \E net \in NetConditions : BackendDelete(<<"a.jpg">>, net)
    \/ \E net \in NetConditions : BackendExists(<<"a.jpg">>, net)
    \/ \E t \in 1..MaxTransports : Drop(t)
    \/ Discard

SpecSFTP == Init /\ [][NextSFTP]_vars

(***************************************************************************)
(* SFTP uploads to paths of several depths on a server that has none, some *)
(* or all of the directories and refuses to create some of them.           *)
(***************************************************************************)
\* The server starts to refuse the creation of a directory that does not
\* exist (its parent is made read-only, a file takes its name)
Deny(dir_path) ==
    /\ storage_backend.type = "sftp"
    /\ storage_backend.phase = "ready"
    /\ dir_path \notin storage_backend.dirs
    /\ dir_path \notin storage_backend.denied
    /\ storage_backend' = [storage_backend EXCEPT !.denied = @ \cup {dir_path}]
    /\ UNCHANGED <<storage_providers, images, next_provider_id, next_image_id, remote, log,
                   response, STORAGE_ENCRYPTION_KEY, requests, call>>

MkdirPaths == {<<"a.jpg">>, <<"u1", "b.jpg">>, <<"u1", "2026", "c.jpg">>}

NextMkdir ==
    \/ \E dirs \in ServerDirs : NewBackend("sftp", SFTPCredentials, SFTPConfig, "ok", dirs)
    \/ \E path \in MkdirPaths :
          \E k \in 1..(Len(os_path_join(SFTPRemotePath, path)) - 1) :
              Deny(SubSeq(os_path_join(SFTPRemotePath, path), 1, k))
    \/ \E path \in MkdirPaths : BackendUpload(BytesIO(<<1>>), path, "ok")

SpecMkdir == Init /\ [][NextMkdir]_vars

(***************************************************************************)
(* Updates of providers created with and without credentials: bodies with  *)
(* no credentials, an empty map, a complete and an incomplete map, and a   *)
(* change of type with its credentials.                                    *)
(***************************************************************************)
CredentialUpdateRequests ==
    {<<>>,
     [is_active |-> FALSE],
     [credentials |-> <<>>],
     [credentials |-> S3Credentials2],
     [credentials |-> [access_key_id |-> "AKIA1"]],
     [provider_type |-> "gcs", config |-> GCSConfig, credentials |-> GCSCredentials]}

NextCredentialUpdate ==
    \/ \E F \in {{"provider_type", "config"}, {"provider_type", "config", "credentials"}} :
          CreateProvider("u1", Restrict(ProviderBody("s3", S3Config, S3Credentials,
                                                     FALSE, TRUE), F))
    \/ \E pk \in ProviderIds, data \in CredentialUpdateRequests :
          UpdateProvider("u1", pk, data)

SpecCredentialUpdate == Init /\ [][NextCredentialUpdate]_vars

(***************************************************************************)
(* The backend classes and the factory, called directly.                   *)
(***************************************************************************)
\* backend_class(credentials, config)
Construct(provider_type, credentials, config, net) ==
    /\ call' = [op |-> "construct", provider_type |-> provider_type,
                credentials |-> credentials, config |-> config, net |-> net,
                result |-> backend_class(provider_type, credentials, config, net)]
    /\ UNCHANGED <<storage_providers, images, next_provider_id, next_image_id, remote, log,
                   response, STORAGE_ENCRYPTION_KEY, requests, storage_backend>>

\* get_storage_backend(storage_provider)
Build(storage_provider, net) ==
    /\ call' = [op |-> "get_storage_backend", storage_provider |-> storage_provider,
                net |-> net,
                result |-> get_storage_backend(STORAGE_ENCRYPTION_KEY, storage_provider, net)]
    /\ UNCHANGED <<storage_providers, images, next_provider_id, next_image_id, remote, log,
                   response, STORAGE_ENCRYPTION_KEY, requests, storage_backend>>

NextFactory ==
    \/ \E provider_type \in PROVIDER_CHOICES, net \in NetConditions :
          \E credentials \in ConstructorCredentials(provider_type),
             config \in ConstructorConfigs(provider_type) :
              Construct(provider_type, credentials, config, net)
    \/ \E storage_provider \in FactoryRecords, net \in NetConditions :
          Build(storage_provider, net)

SpecFactory == Init /\ [][NextFactory]_vars

(***************************************************************************)
(* The vault called on a StorageProvider object, as the tests do, next to  *)
(* creates and updates whose request body is kept in the request's frame.  *)
(***************************************************************************)
\* Credential maps: empty, of one and of two keys, with a non-ASCII value
CredentialMaps ==
    {<<>>, S3Credentials, S3Credentials2, GCSCredentials,
     [host |-> "host", username |-> "user", password |-> "unicode-text"]}

\* What encrypted_credentials of a loaded row can hold: nothing, a value
\* sealed under the configured key, a value sealed under another key
StoredValues ==
    {<<>>, Fernet_encrypt("fernet-key", json_dumps(S3Credentials)),
     Fernet_encrypt("old-key", json_dumps(AzureCredentials))}

\* StorageProvider.objects.get(...): the object the calls below act on.
\* sealed tells whether encrypted_credentials is what set_credentials stored
\* for the map in credentials.
Load(encrypted_credentials) ==
    /\ call' = [op |-> "load", before |-> encrypted_credentials,
                encrypted_credentials |-> encrypted_credentials,
                credentials |-> <<>>, sealed |-> FALSE, result |-> Return("None")]
    /\ UNCHANGED <<storage_providers, images, next_provider_id, next_image_id, remote, log,
                   response, STORAGE_ENCRYPTION_KEY, requests, storage_backend>>

\* provider.set_credentials(credentials_dict): the attribute is assigned on
\* the last line, after everything that can raise
SetCredentials(credentials_dict) ==
    /\ call.op \in {"load", "set_credentials", "get_credentials"}
    /\ LET result == set_credentials(STORAGE_ENCRYPTION_KEY, credentials_dict)
       IN call' = [op |-> "set_credentials", before |-> call.encrypted_credentials,
                   encrypted_credentials |->
                      IF result.ok THEN result.value ELSE call.encrypted_credentials,
                   credentials |-> IF result.ok THEN credentials_dict ELSE call.credentials,
                   sealed |-> IF result.ok THEN TRUE ELSE call.sealed,
                   result |-> IF result.ok THEN Return("None") ELSE result]
    /\ UNCHANGED <<storage_providers, images, next_provider_id, next_image_id, remote, log,
                   response, STORAGE_ENCRYPTION_KEY, requests, storage_backend>>

\* provider.get_credentials()
GetCredentials ==
    /\ call.op \in {"load", "set_credentials", "get_credentials"}
    /\ call' = [call EXCEPT !.op = "get_credentials",
                            !.before = call.encrypted_credentials,
                            !.result = get_credentials(STORAGE_ENCRYPTION_KEY,
                                                       call.encrypted_credentials)]
    /\ UNCHANGED <<storage_providers, images, next_provider_id, next_image_id, remote, log,
                   response, STORAGE_ENCRYPTION_KEY, requests, storage_backend>>

\* A client sends a provider request: its body is what the view will read
Submit(p, data) ==
    /\ requests[p].pc = "idle"
    /\ requests' = [requests EXCEPT ![p] = [pc |-> "submitted", body |-> data]]
    /\ UNCHANGED <<storage_providers, images, next_provider_id, next_image_id, remote, log,
                   response, STORAGE_ENCRYPTION_KEY, call, storage_backend>>

\* Bodies of POST /providers/ and PATCH /providers/{pk}/: credentials
\* complete, empty and absent, and an S3 config without region
VaultRequests ==
    {Restrict(ProviderBody("s3", S3Config, c, FALSE, TRUE), F) :
        c \in {S3Credentials, S3Credentials2, <<>>},
        F \in {{"provider_type", "config", "credentials"}, {"provider_type", "config"}}}
    \cup {Restrict(ProviderBody("s3", [bucket |-> "bucket"], S3Credentials, FALSE, TRUE), F) :
              F \in {{"provider_type", "config", "credentials"}, {"config"}}}
    \cup {Restrict(ProviderBody("gcs", GCSConfig, GCSCredentials, FALSE, TRUE),
                   {"provider_type", "config", "credentials"})}

NextVault ==
    \/ \E encrypted_credentials \in StoredValues : Load(encrypted_credentials)
    \/ \E credentials_dict \in CredentialMaps : SetCredentials(credentials_dict)
    \/ GetCredentials
    \/ \E data \in VaultRequests : Submit("r1", data)
    \/ /\ requests["r1"].pc = "submitted"
       /\ "provider_type" \in DOMAIN requests["r1"].body
       /\ CreateProvider("u1", requests["r1"].body)
    \/ \E pk \in ProviderIds :
          /\ requests["r1"].pc = "submitted"
          /\ UpdateProvider("u1", pk, requests["r1"].body)

SpecVault == Init /\ [][NextVault]_vars

(***************************************************************************)
(* Properties of the registry.                                             *)
(***************************************************************************)
\* C1: in every state reached by provider create, update, set_default and
\* delete requests served one at a time, each user owns at most one provider
\* with is_default = TRUE.
C1_AtMostOneDefault == \A u \in Users : Cardinality(defaults_of(u)) <= 1

\* A second provider of the same user was just created as default, and the
\* older one is not default.
C1_Witness ==
    /\ response.op = "create" /\ response.status = 201
    /\ response.target \in DOMAIN storage_providers
    /\ storage_providers[response.target].is_default
    /\ \E q \in DOMAIN storage_providers :
          /\ q # response.target
          /\ storage_providers[q].user = response.user
          /\ ~storage_providers[q].is_default

\* C3: when set_default(p) has completed for a provider p of user U, p is
\* default and no other provider of U is: exactly one provider of U is
\* default, the target of the call.
C3_SetDefaultPostcondition ==
    (response.op = "set_default" /\ response.status = 200) =>
        defaults_of(response.user) = {response.target}

\* set_default completed on one of two providers of the same user
C3_Witness ==
    /\ response.op = "set_default" /\ response.status = 200
    /\ \E q \in DOMAIN storage_providers :
          q # response.target /\ storage_providers[q].user = response.user

\* The tokens the vault produces under a configured key
IsVaultCiphertext(e) ==
    /\ Len(e) = 3
    /\ e[1] = "gAAAAA"
    /\ e[2] \in EncryptionKeys \ {""}
    /\ e[3][1] = "json"

\* C8: in every persisted provider row encrypted_credentials is '' or a vault
\* ciphertext; no write stores the raw credential map.
C8_CredentialsSealed ==
    \A pk \in DOMAIN storage_providers :
        \/ storage_providers[pk].encrypted_credentials = <<>>
        \/ IsVaultCiphertext(storage_providers[pk].encrypted_credentials)

\* An update with raw credentials has stored a sealed value
C8_Witness ==
    /\ response.op = "update" /\ response.status = 200
    /\ response.target \in DOMAIN storage_providers
    /\ storage_providers[response.target].encrypted_credentials # <<>>

SealedValues ==
    {<<>>} \cup {Fernet_encrypt(k, json_dumps(c)) :
                    k \in EncryptionKeys \ {""}, c \in {S3Credentials, S3Credentials2}}

\* C9: no response of list, retrieve, create, update or set_default carries a
\* credentials or encrypted_credentials field, and each provider
\* representation in it is the one the same row would get with any other
\* sealed credentials.
C9_NoCredentialsInResponses ==
    response.op \in {"list", "retrieve", "create", "update", "set_default"} =>
        \A r \in response.providers :
            /\ "credentials" \notin DOMAIN r
            /\ "encrypted_credentials" \notin DOMAIN r
            /\ r.id \in DOMAIN storage_providers
            /\ \A e \in SealedValues :
                  LET other == [storage_providers[r.id] EXCEPT !.encrypted_credentials = e]
                  IN r \in {StorageProviderSerializer(r.id, other),
                            StorageProviderListSerializer(r.id, other)}

\* A provider holding sealed credentials was retrieved
C9_Witness ==
    /\ response.op = "retrieve" /\ response.status = 200
    /\ \E r \in response.providers :
          storage_providers[r.id].encrypted_credentials # <<>>

(***************************************************************************)
(* Properties of the image endpoints.                                      *)
(***************************************************************************)
\* C4: an upload whose backend could not be built or whose Backend.upload
\* raised answers with an error and creates no Image record; an upload
\* request creates an Image record only when its backend was built and its
\* upload call returned, and the uploaded object is then in the store.
C4_UploadFailureBlocksRecord ==
    [][response'.op = "upload" =>
         /\ response'.status # 201 => images' = images
         /\ images' # images =>
               /\ response'.status = 201
               /\ response'.net = "ok"
               /\ DOMAIN images' = DOMAIN images \cup {response'.target}
               /\ response'.target \notin DOMAIN images
               /\ LET image == images'[response'.target]
                  IN /\ get_storage_backend(STORAGE_ENCRYPTION_KEY,
                                            storage_providers[image.storage_provider],
                                            response'.net).ok
                     /\ <<image.storage_provider, image.storage_path>> \in remote' \ remote
      ]_vars

\* An upload failed in the backend (it passed validation and found a provider)
C4_Witness ==
    /\ response.op = "upload" /\ response.status = 500
    /\ response.error \in {"ConnectionError", "AuthenticationError", "InvalidToken",
                           "ValueError: STORAGE_ENCRYPTION_KEY not configured"}
    /\ images = <<>>

C7_ProviderProtected ==
    /\ \A i \in DOMAIN images : images[i].storage_provider \in DOMAIN storage_providers
    /\ (response.op = "delete" /\ response.status = 500) =>
          /\ response.target \in DOMAIN storage_providers
          /\ \E i \in DOMAIN images : images[i].storage_provider = response.target

\* The delete of a provider was rejected because an image references it
C7_Witness ==
    /\ response.op = "delete" /\ response.status = 500
    /\ response.error = "ProtectedError"
    /\ \E i \in DOMAIN images : images[i].storage_provider = response.target

(***************************************************************************)
(* Properties across users and of test_connection.                         *)
(***************************************************************************)
\* C6: no request of user U returns or modifies a provider or image of
\* another user: every provider and image representation in the response to
\* U, the provider details inside an image representation included, is of a
\* row U owns, and every row another user owns is left as it was.
C6_NoCrossUserAccess ==
    [][LET u == response'.user
       IN /\ \A r \in response'.providers : storage_providers'[r.id].user = u
          /\ \A r \in response'.images :
                /\ images'[r.id].user = u
                /\ storage_providers'[r.storage_provider_details.id].user = u
          /\ \A pk \in DOMAIN storage_providers :
                storage_providers[pk].user # u =>
                    /\ pk \in DOMAIN storage_providers'
                    /\ storage_providers'[pk] = storage_providers[pk]
          /\ \A i \in DOMAIN images :
                images[i].user # u =>
                    /\ i \in DOMAIN images'
                    /\ images'[i] = images[i]
      ]_vars

\* C10: test_connection answers 200 exactly when the backend was built and
\* the probe reached the provider; a failure to decrypt the credentials, to
\* construct the backend, to connect or to authenticate answers 400, for
\* every backend variant.
C10_TestConnectionReportsFailure ==
    (response.op = "test_connection" /\ response.status # 404) =>
        LET backend == get_storage_backend(STORAGE_ENCRYPTION_KEY,
                                           storage_providers[response.target],
                                           response.net)
        IN /\ response.status \in {200, 400}
           /\ response.status = 200 <=> (backend.ok /\ response.net = "ok")

\* C11: test_connection mutates no state: after the call every provider
\* record (is_default, is_active, config and encrypted_credentials included)
\* and every image record is as before, and nothing was written to or
\* deleted from a remote store, whether the probe succeeded or failed.
C11_TestConnectionMutatesNothing ==
    [][response'.op = "test_connection" =>
         /\ storage_providers' = storage_providers
         /\ images' = images
         /\ remote' = remote
         /\ next_provider_id' = next_provider_id
         /\ next_image_id' = next_image_id
      ]_vars

\* A probe has succeeded on a provider that holds an uploaded image
C11_Witness ==
    /\ response.op = "test_connection" /\ response.status = 200
    /\ \E i \in DOMAIN images : images[i].storage_provider = response.target
    /\ \E object \in remote : object[1] = response.target

\* C14 as stated: an upload that names no provider is rejected exactly when
\* the user has no default provider.
C14_RejectedIffNoDefault ==
    response.op = "upload" =>
        (response.status = 400 <=> defaults_of(response.user) = {})

\* The providers of u that are default and active
C14_ActiveDefaults(u) ==
    {pk \in DOMAIN storage_providers :
        /\ storage_providers[pk].user = u
        /\ storage_providers[pk].is_default
        /\ storage_providers[pk].is_active}

\* C14: an upload that names no provider goes to a provider of the
\* requesting user that is default and active, and is rejected (400, no
\* backend call, no Image record, no object stored) exactly when the user
\* has no provider that is both default and active.
C14_DefaultUpload ==
    [][response'.op = "upload" =>
         LET u == response'.user
         IN /\ response'.status = 400 <=> C14_ActiveDefaults(u) = {}
            /\ response'.status = 400 =>
                  /\ response'.error = "No storage provider configured"
                  /\ response'.net = "unused"
                  /\ images' = images
                  /\ remote' = remote
            /\ response'.status = 201 =>
                  images'[response'.target].storage_provider \in C14_ActiveDefaults(u)
            /\ \A object \in remote' \ remote : object[1] \in C14_ActiveDefaults(u)
      ]_vars

\* An upload was rejected although the user has a default provider: the
\* default provider is inactive
C14_Witness ==
    /\ response.op = "upload" /\ response.status = 400
    /\ \E pk \in defaults_of(response.user) : ~storage_providers[pk].is_active
    /\ images = <<>>

(***************************************************************************)
(* Properties of the backend classes and of the factory.                   *)
(***************************************************************************)
\* The keys each backend variant requires (region is optional)
C15_RequiredKeys(provider_type) ==
    CASE provider_type = "s3" -> {"bucket", "access_key_id", "secret_access_key"}
      [] provider_type = "azure" -> {"container", "account_name", "account_key"}
      [] provider_type = "gcs" -> {"bucket", "credentials_json"}
      [] provider_type = "sftp" -> {"remote_path", "host", "username"}

\* C15: constructing a backend variant from credentials/config that lack
\* required keys fails at construction with an error that names exactly the
\* set of missing keys, all of them; SFTP credentials with neither password
\* nor key_file fail too, and no connection attempt is made.
C15_ConstructorNamesMissingKeys ==
    call.op = "construct" =>
        LET missing == C15_RequiredKeys(call.provider_type)
                          \ (DOMAIN call.credentials \cup DOMAIN call.config)
            result == call.result
        IN /\ missing # {} =>
                 /\ ~result.ok
                 /\ "keys" \in DOMAIN result
                 /\ result.keys = missing
           /\ (/\ call.provider_type = "sftp"
               /\ "password" \notin DOMAIN call.credentials
               /\ "key_file" \notin DOMAIN call.credentials) =>
                 /\ ~result.ok
                 /\ "connect_attempted" \notin DOMAIN result

\* C16 as stated: the factory returns the backend of the record's type, and
\* for any other provider_type fails with the unsupported-provider error
\* whatever the state of the record's credentials.
C16_UnsupportedWhateverCredentials ==
    call.op = "get_storage_backend" =>
        LET provider_type == call.storage_provider.provider_type
        IN /\ call.result.ok => call.result.value.type = provider_type
           /\ provider_type \notin PROVIDER_CHOICES =>
                 /\ ~call.result.ok
                 /\ call.result.error = "ValueError: Unsupported storage provider"

\* C16: the factory returns the S3, Azure, GCS or SFTP backend for
\* provider_type s3, azure, gcs, sftp; for a record with any other
\* provider_type it constructs no backend and fails: with the
\* unsupported-provider error when the record's credentials decrypt, and
\* with the error of get_credentials when they do not.
C16_FactoryDispatch ==
    call.op = "get_storage_backend" =>
        LET provider_type == call.storage_provider.provider_type
            credentials == get_credentials(STORAGE_ENCRYPTION_KEY,
                                           call.storage_provider.encrypted_credentials)
        IN /\ call.result.ok =>
                 /\ provider_type \in PROVIDER_CHOICES
                 /\ call.result.value.type = provider_type
           /\ (/\ provider_type \in PROVIDER_CHOICES
               /\ credentials.ok
               /\ required_creds(provider_type) \subseteq DOMAIN credentials.value
               /\ call.net = "ok") => call.result.ok
           /\ provider_type \notin PROVIDER_CHOICES =>
                 /\ ~call.result.ok
                 /\ call.result.error =
                       IF credentials.ok THEN "ValueError: Unsupported storage provider"
                       ELSE credentials.error

\* The factory was given a record of an unknown type whose credentials do
\* not decrypt under the configured key
C16_Witness ==
    /\ call.op = "get_storage_backend"
    /\ call.storage_provider.provider_type = "ftp"
    /\ STORAGE_ENCRYPTION_KEY # ""
    /\ call.result.error = "InvalidToken"

(***************************************************************************)
(* Properties of the vault.                                                *)
(***************************************************************************)
\* The body of the request the last create answered
C17_Submitted == requests["r1"].body

\* C17 as stated: get_credentials after set_credentials(s) returns s, the
\* empty map included, and the value read back through a provider created
\* via the API equals the credentials submitted.
C17_RoundTripThroughApi ==
    /\ (call.op = "get_credentials" /\ call.sealed) =>
          call.result = Return(call.credentials)
    /\ (/\ STORAGE_ENCRYPTION_KEY # ""
        /\ response.op = "create" /\ response.status = 201
        /\ "credentials" \in DOMAIN C17_Submitted) =>
          get_credentials(STORAGE_ENCRYPTION_KEY,
                          storage_providers[response.target].encrypted_credentials)
             = Return(C17_Submitted.credentials)

\* C17: for every credential map s, the empty map included, get_credentials
\* after set_credentials(s) under the same key returns a map equal to s; the
\* value read back through a provider created via the API with a non-empty
\* credential map equals the credentials submitted.
C17_VaultRoundTrip ==
    /\ (call.op = "get_credentials" /\ call.sealed) =>
          call.result = Return(call.credentials)
    /\ (/\ STORAGE_ENCRYPTION_KEY # ""
        /\ response.op = "create" /\ response.status = 201
        /\ "credentials" \in DOMAIN C17_Submitted
        /\ C17_Submitted.credentials # <<>>) =>
          get_credentials(STORAGE_ENCRYPTION_KEY,
                          storage_providers[response.target].encrypted_credentials)
             = Return(C17_Submitted.credentials)

\* The empty map was sealed and read back by direct calls, and a provider
\* was created through the API with credentials
C17_Witness ==
    /\ call.op = "get_credentials" /\ call.sealed /\ call.credentials = <<>>
    /\ response.op = "create" /\ response.status = 201
    /\ "credentials" \in DOMAIN C17_Submitted
    /\ C17_Submitted.credentials # <<>>

\* C18: when STORAGE_ENCRYPTION_KEY is absent, set_credentials and
\* get_credentials each fail with the configuration error (the ValueError
\* 'STORAGE_ENCRYPTION_KEY not configured') and neither is a silent no-op:
\* set_credentials leaves encrypted_credentials as it was and
\* get_credentials returns no credential map.
C18_AbsentKeyFails ==
    (STORAGE_ENCRYPTION_KEY = "" /\ call.op \in {"set_credentials", "get_credentials"}) =>
        /\ ~call.result.ok
        /\ call.result.error = "ValueError: STORAGE_ENCRYPTION_KEY not configured"
        /\ "value" \notin DOMAIN call.result
        /\ call.encrypted_credentials = call.before

\* set_credentials was called without a key on an object that holds a
\* sealed value
C18_Witness ==
    /\ STORAGE_ENCRYPTION_KEY = ""
    /\ call.op = "set_credentials"
    /\ call.encrypted_credentials # <<>>

\* C19: for an S3 provider region is optional: the validation of create and
\* update accepts a config that holds bucket and no region, and the backend
\* built from such a config uses region us-east-1.
C19_RegionOptional ==
    (/\ response.op \in {"create", "update"} /\ response.status # 404
     /\ "config" \in DOMAIN C17_Submitted
     /\ DOMAIN C17_Submitted.config = {"bucket"}) =>
        /\ response.status # 400
        /\ S3Backend_init(S3Credentials, C17_Submitted.config).value.region = "us-east-1"

(***************************************************************************)
(* Properties of the SFTP backend's connection.                            *)
(***************************************************************************)
\* C12: once the request that owns an SFTP backend instance has finished,
\* after success, after a failed connect during construction or after a
\* failed operation, no transport the instance opened is still open and no
\* SFTP session of it is still open.
C12_ConnectionsReleased ==
    (storage_backend.type = "sftp" /\ storage_backend.phase = "discarded") =>
        /\ \A t \in DOMAIN storage_backend.transports :
              storage_backend.transports[t] \in {"closed", "dropped"}
        /\ \A c \in DOMAIN storage_backend.clients :
              \/ storage_backend.clients[c].state = "closed"
              \/ storage_backend.transports[storage_backend.clients[c].transport]
                    \in {"closed", "dropped"}

\* An instance that reconnected after a drop was discarded after a failed
\* operation, and the transport it held at the end is closed
C12_Witness ==
    /\ storage_backend.type = "sftp" /\ storage_backend.phase = "discarded"
    /\ Len(storage_backend.transports) >= 2
    /\ storage_backend.transports[1] = "dropped"
    /\ storage_backend.transports[storage_backend.transport] = "closed"
    /\ storage_backend.last.op # "init" /\ ~storage_backend.last.ret.ok

\* C13: every remote command of upload, download, delete and exists is
\* issued while the instance is Connected (self.transport is a transport
\* and it is active), for any sequence of operations and connection drops:
\* no command is issued while Disconnected.
C13_NoCommandWhileDisconnected ==
    storage_backend.type = "sftp" =>
        \A c \in storage_backend.commands : c.connected

\* An operation found the connection dropped, reconnected and issued its
\* command on the new connection
C13_Witness ==
    /\ storage_backend.type = "sftp" /\ storage_backend.phase = "ready"
    /\ Len(storage_backend.transports) >= 2
    /\ storage_backend.transports[1] = "dropped"
    /\ storage_backend.last.op \in {"upload", "download", "delete", "exists"}
    /\ storage_backend.last.ret.ok
    /\ storage_backend.commands # {}

(***************************************************************************)
(* Properties of the backends over a store double.                         *)
(***************************************************************************)
\* C20: for every backend variant over a store double, exists(path) returns
\* false without raising for a path never written and true right after a
\* successful upload to it, download(path) after upload(stream, path)
\* returns exactly the uploaded content positioned at offset 0, and a second
\* upload to the same path overwrites the first.
C20_StoreContract ==
    storage_backend.type # "none" =>
        LET last == storage_backend.last
            uploaded == storage_backend.uploaded
        IN /\ last.op = "upload" => last.ret = Return(last.path)
           /\ last.op = "exists" => last.ret = Return(last.path \in DOMAIN uploaded)
           /\ (last.op = "download" /\ last.path \in DOMAIN uploaded) =>
                 last.ret = Return(BytesIO(uploaded[last.path]))

(***************************************************************************)
(* Properties of the optimization figures and of the statistics.           *)
(***************************************************************************)
\* C21 as stated: for every successful upload with optimize=true, the stored
\* Image record has is_optimized = true, optimized_size <= file_size and
\* optimization_percentage >= 0, whatever stream the optimizer returns.
C21_OptimizedNeverLarger ==
    [][(response'.op = "upload" /\ response'.status = 201) =>
        \A data \in SizedUploadRequests :
          (data.optimize /\ ImageViewSet_create(response'.user, data, response'.net)) =>
              LET image == images'[response'.target]
              IN /\ image.is_optimized
                 /\ image.optimized_size[1] <= image.file_size
                 /\ image.optimization_percentage[1] >= 0
      ]_vars

\* C21: for every successful upload with optimize=true, the stored Image
\* record has is_optimized = true, file_size the length of the uploaded file
\* and optimized_size the length of the stream the optimizer returned;
\* optimization_percentage >= 0 exactly when optimized_size <= file_size, and
\* it is negative when the optimizer returned a longer stream.
C21_OptimizedAsMeasured ==
    [][(response'.op = "upload" /\ response'.status = 201) =>
        \A data \in SizedUploadRequests :
          (data.optimize /\ ImageViewSet_create(response'.user, data, response'.net)) =>
              LET image == images'[response'.target]
              IN /\ image.is_optimized
                 /\ image.file_size = data.image_size
                 /\ image.optimized_size = Some(data.image_optimized_size)
                 /\ image.optimization_percentage # None
                 /\ image.optimization_percentage[1] >= 0
                       <=> image.optimized_size[1] <= image.file_size
                 /\ data.image_optimized_size > data.image_size
                       => image.optimization_percentage[1] < 0
      ]_vars

\* An optimized upload has stored a record whose optimized stream is longer
\* than the file and whose percentage is negative
C21_Witness ==
    /\ response.op = "upload" /\ response.status = 201
    /\ response.target \in DOMAIN images
    /\ LET image == images[response.target]
       IN /\ image.is_optimized
          /\ image.optimized_size[1] > image.file_size
          /\ image.optimization_percentage[1] < 0

\* C22: stats for user U reports, over exactly the images U owns:
\* total_images their count, total_size_bytes the sum of file_size,
\* optimized_images the count of those with is_optimized, total_saved_bytes
\* the sum of file_size - optimized_size over every optimized image.
C22_StatsOverOwnImages ==
    response.op = "stats" =>
        LET own == {i \in DOMAIN images : images[i].user = response.user}
            optimized == {i \in own : images[i].is_optimized}
        IN /\ response.stats.total_images = Cardinality(own)
           /\ response.stats.total_size_bytes =
                 sum([i \in own |-> images[i].file_size], own)
           /\ response.stats.optimized_images = Cardinality(optimized)
           /\ response.stats.total_saved_bytes =
                 sum([i \in optimized |-> images[i].file_size - images[i].optimized_size[1]],
                     optimized)

\* Stats were reported to a user who owns an optimized image that saved
\* bytes, while the other user owns an image too
C22_Witness ==
    /\ response.op = "stats"
    /\ response.stats.total_images = 1 /\ response.stats.optimized_images = 1
    /\ response.stats.total_saved_bytes # 0
    /\ \E i \in DOMAIN images : images[i].user # response.user

(***************************************************************************)
(* Properties of the references between images and providers.              *)
(***************************************************************************)
\* C23: in every state reached by image upload, update and delete, each
\* Image record references a storage provider owned by the image's own user;
\* no request makes an image point at another user's provider.
C23_ImageProviderSameOwner ==
    \A i \in DOMAIN images :
        /\ images[i].storage_provider \in DOMAIN storage_providers
        /\ storage_providers[images[i].storage_provider].user = images[i].user

(***************************************************************************)
(* Properties of provider create and update.                               *)
(***************************************************************************)
\* C24: provider create is all-or-nothing: when create fails while sealing
\* the submitted credentials (the encryption key is not configured), no new
\* provider record is persisted and the is_default flags of the user's
\* existing providers are unchanged.
C24_CreateAllOrNothing ==
    [][(response'.op = "create" /\ response'.status = 500) =>
          /\ DOMAIN storage_providers' = DOMAIN storage_providers
          /\ \A pk \in DOMAIN storage_providers :
                storage_providers'[pk].is_default = storage_providers[pk].is_default
      ]_vars

\* C25: a provider update whose request does not include is_default never
\* changes which of the user's providers is default, even when its read and
\* its save interleave with a set_default for the same user: after both have
\* completed, the default is the target of the set_default.
C25_UpdateKeepsDefault ==
    (/\ requests["r1"].pc = "done"
     /\ requests["r2"].pc = "updated"
     /\ requests["r1"].user = requests["r2"].user
     /\ "is_default" \notin DOMAIN requests["r2"].body)
    => defaults_of(requests["r1"].user) = {requests["r1"].pk}

(***************************************************************************)
(* Properties of the directory creation of SFTP uploads.                   *)
(***************************************************************************)
\* The directories above remote_path: every non-empty prefix of its dirname
C26_Ancestors(remote_path) ==
    {SubSeq(remote_path, 1, k) : k \in 1..(Len(remote_path) - 1)}

\* The step is an upload of the SFTP instance
C26_UploadStep ==
    /\ storage_backend.type = "sftp"
    /\ storage_backend'.last.op = "upload"
    /\ storage_backend'.denied = storage_backend.denied
    /\ storage_backend' # storage_backend

\* C26 as stated: SFTP upload creates every missing intermediate directory
\* of the target path, from the shallowest ancestor to the deepest, before
\* writing the file; an existing directory is left untouched; creation
\* stops at the first ancestor that cannot be created: no deeper mkdir is
\* attempted after it.
C26_MkdirStopsAtFirstFailure ==
    [][C26_UploadStep =>
         LET remote_path == os_path_join(SFTPRemotePath, storage_backend'.last.path)
             missing == C26_Ancestors(remote_path) \ storage_backend.dirs
             mkdirs == storage_backend'.mkdirs
         IN /\ \A i \in DOMAIN mkdirs : mkdirs[i].path \in missing
            /\ \A i, j \in DOMAIN mkdirs :
                  i < j => Len(mkdirs[i].path) < Len(mkdirs[j].path)
            /\ (\A i \in DOMAIN mkdirs : mkdirs[i].ok) =>
                  {mkdirs[i].path : i \in DOMAIN mkdirs} = missing
            /\ \A i \in DOMAIN mkdirs : ~mkdirs[i].ok => i = Len(mkdirs)
            /\ storage_backend'.last.ret.ok =>
                  /\ C26_Ancestors(remote_path) \subseteq storage_backend'.dirs
                  /\ remote_path \in DOMAIN storage_backend'.objects
      ]_vars

\* C26: SFTP upload sends a mkdir for every missing intermediate directory
\* of the target path, from the shallowest to the deepest, before writing
\* the file, and for no directory that exists; a mkdir that fails is passed
\* over and the deeper directories are still attempted (and fail in turn);
\* the file is written exactly when every directory above it then exists,
\* and the upload fails without writing otherwise.
C26_MkdirBestEffort ==
    [][C26_UploadStep =>
         LET remote_path == os_path_join(SFTPRemotePath, storage_backend'.last.path)
             missing == C26_Ancestors(remote_path) \ storage_backend.dirs
             mkdirs == storage_backend'.mkdirs
         IN /\ {mkdirs[i].path : i \in DOMAIN mkdirs} = missing
            /\ \A i, j \in DOMAIN mkdirs :
                  i < j => Len(mkdirs[i].path) < Len(mkdirs[j].path)
            /\ \A i \in DOMAIN mkdirs :
                  mkdirs[i].ok <=>
                     \A d \in missing :
                        Len(d) <= Len(mkdirs[i].path) => d \notin storage_backend.denied
            /\ storage_backend'.dirs =
                  storage_backend.dirs
                  \cup {mkdirs[i].path : i \in {j \in DOMAIN mkdirs : mkdirs[j].ok}}
            /\ storage_backend'.last.ret.ok <=> missing \cap storage_backend.denied = {}
            /\ storage_backend'.last.ret.ok =>
                  /\ C26_Ancestors(remote_path) \subseteq storage_backend'.dirs
                  /\ remote_path \in DOMAIN storage_backend'.objects
            /\ ~storage_backend'.last.ret.ok =>
                  /\ storage_backend'.last.ret.error = "FileNotFoundError"
                  /\ storage_backend'.objects = storage_backend.objects
      ]_vars

\* An upload whose first mkdir was refused went on to send the mkdir of the
\* deeper directories, created none of them and failed
C26_Witness ==
    /\ storage_backend.type = "sftp"
    /\ storage_backend.last.op = "upload"
    /\ ~storage_backend.last.ret.ok
    /\ Len(storage_backend.mkdirs) >= 3
    /\ \A i \in DOMAIN storage_backend.mkdirs : ~storage_backend.mkdirs[i].ok

(***************************************************************************)
(* Properties of the credentials under provider updates.                   *)
(***************************************************************************)
\* C27: a provider update that carries no credentials (the field absent or
\* an empty map) leaves the provider's encrypted_credentials unchanged; the
\* sealed credentials change only when a non-empty credential map is
\* supplied, and then they are replaced as a whole by the new sealed map.
C27_CredentialsChangeOnlyWhenSupplied ==
    [][response'.op = "update" =>
        \A data \in CredentialUpdateRequests :
          (/\ response'.target \in DOMAIN storage_providers
           /\ UpdateProvider(response'.user, response'.target, data)) =>
              LET before == storage_providers[response'.target].encrypted_credentials
                  after == storage_providers'[response'.target].encrypted_credentials
                  credentials == Get(data, "credentials", <<>>)
              IN /\ credentials = <<>> => after = before
                 /\ after # before =>
                       /\ credentials # <<>>
                       /\ after = Fernet_encrypt(STORAGE_ENCRYPTION_KEY,
                                                 json_dumps(credentials))
                       /\ get_credentials(STORAGE_ENCRYPTION_KEY, after)
                             = Return(credentials)
                 /\ (credentials # <<>> /\ response'.status = 200) =>
                       get_credentials(STORAGE_ENCRYPTION_KEY, after) = Return(credentials)
      ]_vars

\* An update has changed the type of a provider created as S3 and sealed
\* the credentials of the new type in place of what the record held
C27_Witness ==
    /\ response.op = "update" /\ response.status = 200
    /\ response.target \in DOMAIN storage_providers
    /\ storage_providers[response.target].provider_type = "gcs"
    /\ get_credentials(STORAGE_ENCRYPTION_KEY,
                       storage_providers[response.target].encrypted_credentials)
          = Return(GCSCredentials)

====
